---- MODULE Spec2Model ----
(***************************************************************************)
(* Incremental G-code tessellation and layered draw-range model of         *)
(* printrun/gl/actors.py: GcodeModel.load_data (a generator driven layer   *)
(* by layer), GcodeModel.load (upload), GcodeModel.draw, and the parser    *)
(* that appends lines and layers to the program while the load runs.       *)
(*                                                                         *)
(* Arrays are modelled by their capacity (numpy .size) and, for the index  *)
(* array, by the written prefix; vertex attribute values are abstracted    *)
(* to vertex counts (bufferlen_per_vertex floats each).                    *)
(***************************************************************************)
EXTENDS Integers, Sequences, FiniteSets, TLC

\* ------------------------------------------------------------------ bounds
MaxLines == 3
MaxCursor == 4
MaxLayers == 4
RunLen == 5
BatchLen == 49
BatchLayers == 3
MaxRadius == 5

\* ---------------------------------------------------------------- helpers
Min(a, b) == IF a <= b THEN a ELSE b
Max(a, b) == IF a >= b THEN a ELSE b
Last(s) == s[Len(s)]

RECURSIVE SumLen(_)
SumLen(ls) == IF ls = << >> THEN 0 ELSE Len(Head(ls)) + SumLen(Tail(ls))

\* --------------------------------------------------- program (gcoder side)
\* Positions the parser resolves targets to (current_x, current_y).
Points == { <<0, 0>>, <<1, 0>>, <<1, 1>> }

\* A line: is_move; has_xyz (one of x, y, z is given); has_ij (one of i, j
\* is given); command; extruding; pos, the resolved (current_x, current_y);
\* i, j, the arc centre offsets (0 when absent).

\* A line that is no motion command (comment, M-code).
NonMove ==
  [is_move |-> FALSE, has_xyz |-> FALSE, has_ij |-> FALSE, command |-> "M",
   extruding |-> FALSE, pos |-> <<0, 0>>, i |-> 0, j |-> 0]

\* G1 with X/Y/Z words.
G1(p, e) ==
  [is_move |-> TRUE, has_xyz |-> TRUE, has_ij |-> FALSE, command |-> "G1",
   extruding |-> e, pos |-> p, i |-> 0, j |-> 0]

\* G2 / G3 with X/Y words and the centre offsets i, j; has_ij is false when
\* the line carries neither an I nor a J word (i = j = 0 then).
Arc(command, p, e, i, j, has_ij) ==
  [is_move |-> TRUE, has_xyz |-> TRUE, has_ij |-> has_ij, command |-> command,
   extruding |-> e, pos |-> p, i |-> i, j |-> j]

\* The lines the parser can append.
Glines == {NonMove} \cup { G1(p, e) : p \in Points, e \in BOOLEAN }

\* len(model_data): the number of parsed lines of all layers.
GcodeLen(gc) == SumLen(gc)

VARIABLES
  gcode,    \* model_data.all_layers: sequence of layers, each a sequence of lines
  self,     \* the GcodeModel instance (fields of Model / GcodeModel)
  frame,    \* the load_data generator's frame: its locals and position
  lock,     \* Model.lock: "free" or the name of the holder
  gpu,      \* the buffer objects as filled by the last load()
  render,   \* the thread that calls draw(): its position, its last pass
  other,    \* a second model instance: "idle", or "inside" a with self.lock
  copy,     \* the instances returned by copy(): << >> or one instance
  arc       \* an interpolate_arcs call on its own: its arguments and result

vars == <<gcode, self, frame, lock, gpu, render, other, copy, arc>>

\* ------------------------------------------------------- program constants
coordspervertex == 3
buffered_color_len == 4
bufferlen_per_vertex == 2 * coordspervertex + buffered_color_len
verticesperline == 2 * 4
travelverticesperline == 2
indicesperbox == 3 * (2 * 4)
boxperline == 2
indicesperline == indicesperbox * boxperline
arc_margin_lines == 100

coords_count(line_count) == line_count * verticesperline * bufferlen_per_vertex
travel_coords_count(line_count) ==
  line_count * travelverticesperline * bufferlen_per_vertex
indices_count(line_count) == line_count * indicesperline

triangulate_rectangle(i1, i2, i3, i4) == <<i1, i4, i3, i3, i2, i1>>

triangulate_box(i1, i2, i3, i4, j1, j2, j3, j4) ==
  <<i1, i2, j2, j2, j1, i1, i2, i3, j3, j3, j2, i2,
    i3, i4, j4, j4, j3, i3, i4, i1, j1, j1, j4, i4>>


\* --------------------------------------------------------------- geometry
\* math.atan2(delta_y, delta_x) of a grid displacement, in units of 45
\* degrees, normalised to 0..7.
move_angle_of(delta_x, delta_y) ==
  CASE delta_x > 0 /\ delta_y = 0 -> 0
    [] delta_x > 0 /\ delta_y > 0 -> 1
    [] delta_x = 0 /\ delta_y > 0 -> 2
    [] delta_x < 0 /\ delta_y > 0 -> 3
    [] delta_x < 0 /\ delta_y = 0 -> 4
    [] delta_x < 0 /\ delta_y < 0 -> 5
    [] delta_x = 0 /\ delta_y < 0 -> 6
    [] delta_x > 0 /\ delta_y < 0 -> 7
    [] OTHER -> 0

\* fact = abs(cos(delta_angle / 2)) < 0.5 for delta_angle a multiple of 45
\* degrees in [0, 360): true for 135, 180 and 225 degrees.
turn_is_sharp(move_angle, prev_move_angle) ==
  ((move_angle - prev_move_angle) % 8) \in {3, 4, 5}

\* get_next_move: the next line with is_move after (layer_idx, gline_idx),
\* as a sequence of length 1, or << >> for None.  Indices are 0-based.
RECURSIVE next_move_from(_, _, _)
next_move_from(gc, layer_idx, gline_idx) ==
  IF layer_idx >= Len(gc) THEN << >>
  ELSE IF gline_idx < Len(gc[layer_idx + 1])
       THEN IF gc[layer_idx + 1][gline_idx + 1].is_move
            THEN << gc[layer_idx + 1][gline_idx + 1] >>
            ELSE next_move_from(gc, layer_idx, gline_idx + 1)
       ELSE next_move_from(gc, layer_idx + 1, 0)

get_next_move(gc, layer_idx, gline_idx) ==
  next_move_from(gc, layer_idx, gline_idx + 1)

\* math.atan2(y, x) in units of 45 degrees, in -4..4, for a displacement
\* along an axis or a diagonal.  y_minus, x_minus: the sign bit of an
\* argument that is zero (atan2(-0.0, x) is -pi for x < 0 or x = -0.0).
atan2_of(y, x, y_minus, x_minus) ==
  CASE y > 0 /\ x > 0 -> 1
    [] y > 0 /\ x = 0 -> 2
    [] y > 0 /\ x < 0 -> 3
    [] y < 0 /\ x > 0 -> -1
    [] y < 0 /\ x = 0 -> -2
    [] y < 0 /\ x < 0 -> -3
    [] y = 0 /\ x > 0 -> 0
    [] y = 0 /\ x < 0 -> IF y_minus THEN -4 ELSE 4
    [] y = 0 /\ x = 0 -> IF x_minus THEN (IF y_minus THEN -4 ELSE 4) ELSE 0

Abs(x) == IF x < 0 THEN -x ELSE x

\* math.ceil(n * pi) for 0 <= n < 60, with pi taken as 355/113.
ceil_pi(n) == (n * 355 + 112) \div 113

\* Line 834: r = sqrt(rx*rx + ry*ry), for a centre offset along an axis.
arc_radius(rx, ry) ==
  CASE rx = 0 -> Abs(ry)
    [] ry = 0 -> Abs(rx)

\* Line 839: a_start = atan2(-ry, -rx); the negation of a zero offset is
\* -0.0.
arc_a_start(rx, ry) == atan2_of(-ry, -rx, TRUE, TRUE)

\* Lines 840-842: a_end = atan2(dy, dx) of the target seen from the centre;
\* a zero difference is +0.0.
arc_a_end(gline, prev_gline) ==
  atan2_of(gline.pos[2] - (prev_gline[1].pos[2] + gline.j),
           gline.pos[1] - (prev_gline[1].pos[1] + gline.i), FALSE, FALSE)

\* Lines 843-848: the sweep in units of 45 degrees.
arc_a_delta(gline, prev_gline) ==
  LET a_delta == arc_a_end(gline, prev_gline) - arc_a_start(gline.i, gline.j)
  IN IF gline.command = "G3" /\ a_delta <= 0 THEN a_delta + 8
     ELSE IF gline.command = "G2" /\ a_delta >= 0 THEN a_delta - 8
     ELSE a_delta

\* The segment count without the cap of line 855.
arc_segments_uncapped(gline, prev_gline) ==
  ceil_pi(Abs(arc_a_delta(gline, prev_gline)) * arc_radius(gline.i, gline.j))

\* Lines 854-855: segments = min(ceil(abs(a_delta) * r * 2 / 0.5), 100);
\* abs(a_delta) * r * 2 / 0.5 is (sweep in units of 45 degrees) * r * pi.
arc_segments(gline, prev_gline) ==
  Min(ceil_pi(Abs(arc_a_delta(gline, prev_gline))
              * arc_radius(gline.i, gline.j)), 100)

\* Lines 857-866: the interpolated point number t (0-based).  Its position
\* is kept as the centre, the radius and the angle a = t / segments *
\* a_delta + a_start as a fraction <<numerator, denominator>> of 45 degrees.
arc_mid(gline, prev_gline, t, segments) ==
  [pos |-> << "arc",
              prev_gline[1].pos[1] + gline.i, prev_gline[1].pos[2] + gline.j,
              arc_radius(gline.i, gline.j),
              t * arc_a_delta(gline, prev_gline)
                + segments * arc_a_start(gline.i, gline.j),
              segments >>,
   interpolated |-> TRUE]

\* Lines 836-837: prev_gline.current_x with prev_gline None raises
\* AttributeError before any point is yielded.
interpolate_arcs_raises(gline, prev_gline) ==
  gline.command \in {"G2", "G3"} /\ prev_gline = << >>

\* interpolate_arcs: the points a line yields, the last one flagged final
\* (interpolated = False).  Defined when interpolate_arcs_raises is false.
interpolate_arcs(gline, prev_gline) ==
  IF gline.command \in {"G2", "G3"}
  THEN [t \in 1..arc_segments(gline, prev_gline) |->
          arc_mid(gline, prev_gline, t - 1, arc_segments(gline, prev_gline))]
       \o << [pos |-> gline.pos, interpolated |-> FALSE] >>
  ELSE << [pos |-> gline.pos, interpolated |-> FALSE] >>

\* The index array holds GLuint (32 bit unsigned) values.  An entry is kept
\* as the Python integer that was assigned: a negative entry x stands for the
\* stored value x + 2^32 (numpy before 2.0) and is never below a vertex count.
GLuint_below(x, n) == x >= 0 /\ x < n

any_negative(items) == \E k \in 1..Len(items) : items[k] < 0

\* ------------------------------------------------ load_data: one segment
\* w = [self |-> instance fields, frame |-> generator locals].

\* A mid-layer reallocation: the array, its capacity before and after, and
\* the write cursor plus the chunk about to be written.
growth(array, old, new, needed) ==
  [array |-> array, old |-> old, new |-> new, needed |-> needed]

\* The branches of lines 1006-1134 a segment was built by: the travel
\* branch (1006), or the extruding branch with the join to the previous
\* cross-section (1060) and with the end cross-section and cap (1118).
travel_branches == [extruding |-> FALSE, joined |-> FALSE, capped |-> FALSE]
extruding_branches(joined, capped) ==
  [extruding |-> TRUE, joined |-> joined, capped |-> capped]

\* Lines 1006-1021: a segment of a non-extruding line.  frame.grown collects
\* the mid-layer reallocations of the current layer section.
travel_segment(w, pt) ==
  LET f == w.frame
      s == w.self
      need == f.travel_vertex_k * bufferlen_per_vertex + 2 * bufferlen_per_vertex
      size == IF s.travels < need THEN (s.travels * 3) \div 2 ELSE s.travels
      f1 == IF s.travels < need
            THEN [f EXCEPT !.grown = @ \cup {growth("travels", s.travels,
                                                     size, need)}]
            ELSE f
  IN IF need > size
     THEN [self |-> [s EXCEPT !.travels = size],
           frame |-> [f1 EXCEPT !.raised = "ValueError"]]
     ELSE [self |-> [s EXCEPT !.travels = size],
           frame |-> [f1 EXCEPT !.travel_vertex_k = @ + 2,
                                !.segments = Append(@, travel_branches)]]

\* A segment that always gets the cross-section at its end.
segment_vertices_with_end_section(joined, sharp, capped) ==
  (IF joined /\ sharp THEN 8 ELSE 4) + 4

\* Lines 1060-1134: the number of vertices of one extruding segment: the
\* cross-section at its start (two of them at a sharp turn of a joined
\* segment) and, when no extruding move follows, the one at its end.
segment_vertices(joined, sharp, capped) ==
  (IF joined /\ sharp THEN 8 ELSE 4) + (IF capped THEN 4 ELSE 0)

\* Lines 1060-1134: the indices of one extruding segment that starts at
\* vertex number k = vertex_k.
segment_indices(k, joined, sharp, capped) ==
  LET prev_id == k - 4
      first == IF joined /\ sharp THEN k + 4 ELSE k
      end_first == k + segment_vertices(joined, sharp, capped) - 4
      body_indices ==
        IF joined
        THEN IF sharp
             THEN triangulate_box(prev_id, prev_id + 1, prev_id + 2, prev_id + 3,
                                  k, k + 1, k + 2, k + 3)
                  \o triangulate_box(k, k + 1, k + 2, k + 3,
                                     k + 4, k + 5, k + 6, k + 7)
             ELSE triangulate_box(prev_id, prev_id + 1, prev_id + 2, prev_id + 3,
                                  k, k + 1, k + 2, k + 3)
        ELSE triangulate_rectangle(k, k + 1, k + 2, k + 3)
  IN IF capped
     THEN body_indices
          \o triangulate_rectangle(end_first + 3, end_first + 2,
                                   end_first + 1, end_first)
          \o triangulate_box(first, first + 1, first + 2, first + 3,
                             end_first, end_first + 1,
                             end_first + 2, end_first + 3)
     ELSE body_indices

mesh_with(move_angle, k, joined, sharp, capped) ==
  [move_angle |-> move_angle,
   branches |-> extruding_branches(joined, capped),
   new_vertices |-> segment_vertices(joined, sharp, capped),
   new_indices |-> segment_indices(k, joined, sharp, capped)]

\* Line 1117: next_is_extruding = interpolated or next_move and
\* next_move.extruding.
next_is_extruding(pt, next_move) ==
  pt.interpolated \/ (next_move # << >> /\ next_move[1].extruding)

\* Lines 1023-1134: the mesh of one extruding segment with non-zero XY
\* displacement.
segment_mesh(f, gline, gline_idx, pt, gc, layer_idx) ==
  mesh_with(move_angle_of(pt.pos[1] - f.prev_pos[1],
                          pt.pos[2] - f.prev_pos[2]),
            f.vertex_k,
            (f.prev_gline # << >> /\ f.prev_gline[1].extruding)
              \/ f.prev_extruding,
            turn_is_sharp(move_angle_of(pt.pos[1] - f.prev_pos[1],
                                        pt.pos[2] - f.prev_pos[2]),
                          f.prev_move_angle),
            ~next_is_extruding(pt, get_next_move(gc, layer_idx, gline_idx)))

\* Lines 1136-1148: the capacities after the mid-layer growth check.
\* ratio = needed / indices.size * 1.5; both arrays are resized to
\* int(size * ratio), taken here in exact arithmetic (the float product
\* can come out one lower).
grow_print_buffers(s, needed) ==
  IF s.indices.size < needed
  THEN [s EXCEPT !.vertices = (s.vertices * needed * 3) \div (s.indices.size * 2),
                 !.indices.size = (needed * 3) \div 2]
  ELSE s

\* Lines 1150-1167: the indices and then the vertices of the segment are
\* written; grown holds the capacities after the growth check.
store_segment(grown, f, mesh) ==
  IF (f.vertex_k + mesh.new_vertices) * bufferlen_per_vertex > grown.vertices
  THEN [self |-> [grown EXCEPT !.indices.data = @ \o mesh.new_indices],
        frame |-> [f EXCEPT !.index_k = @ + Len(mesh.new_indices),
                            !.raised = "ValueError"]]
  ELSE [self |-> [grown EXCEPT !.indices.data = @ \o mesh.new_indices],
        frame |-> [f EXCEPT !.index_k = @ + Len(mesh.new_indices),
                            !.vertex_k = @ + mesh.new_vertices,
                            !.prev_move_angle = mesh.move_angle,
                            !.segments = Append(@, mesh.branches)]]

\* Lines 1136-1148: the reallocations the growth check makes before the
\* segment mesh is written at the cursors of f.
print_growths(s, grown, f, mesh) ==
  IF grown = s THEN {}
  ELSE {growth("indices", s.indices.size, grown.indices.size,
               f.index_k + Len(mesh.new_indices)),
        growth("vertices", s.vertices, grown.vertices,
               (f.vertex_k + mesh.new_vertices) * bufferlen_per_vertex)}

\* Lines 1136-1167: growth check and writes.  wraps: whether the numpy build
\* stores a negative index modulo 2^32 or raises OverflowError.
write_segment(s, f, mesh, wraps) ==
  LET needed == f.index_k + Len(mesh.new_indices)
                + arc_margin_lines * indicesperline
      f1 == [f EXCEPT !.grown =
               @ \cup print_growths(s, grow_print_buffers(s, needed), f, mesh)]
  IN IF s.indices.size < needed /\ s.indices.size = 0
     THEN [self |-> s, frame |-> [f EXCEPT !.raised = "ZeroDivisionError"]]
     ELSE IF any_negative(mesh.new_indices) /\ ~wraps
     THEN [self |-> grow_print_buffers(s, needed),
           frame |-> [f1 EXCEPT !.raised = "OverflowError"]]
     ELSE store_segment(grow_print_buffers(s, needed), f1, mesh)

\* Lines 1022-1167: a segment of an extruding line.
extruding_segment(w, gline, gline_idx, pt, gc, wraps) ==
  write_segment(w.self, w.frame,
                segment_mesh(w.frame, gline, gline_idx, pt, gc,
                             w.frame.layer_idx),
                wraps)

\* Lines 1169-1170: the bookkeeping after a segment.
point_done(moved, gline, pt) ==
  IF moved.frame.raised # "" THEN moved
  ELSE [moved EXCEPT !.frame.prev_pos = pt.pos,
                     !.frame.prev_extruding = gline.extruding]

\* A point handler without the norm == 0 test of lines 1026-1027.
process_point_without_norm_test(w, gline, gline_idx, pt, gc, wraps) ==
  point_done(IF ~gline.extruding THEN travel_segment(w, pt)
             ELSE extruding_segment(w, gline, gline_idx, pt, gc, wraps),
             gline, pt)

\* Lines 1005-1170: one (current_pos, interpolated) pair of a line.
process_point(w, gline, gline_idx, pt, gc, wraps) ==
  IF gline.extruding /\ pt.pos = w.frame.prev_pos
  THEN w    \* norm == 0: continue
  ELSE point_done(IF ~gline.extruding THEN travel_segment(w, pt)
                  ELSE extruding_segment(w, gline, gline_idx, pt, gc, wraps),
                  gline, pt)

RECURSIVE process_points(_, _, _, _, _, _)
process_points(w, gline, gline_idx, pts, gc, wraps) ==
  IF pts = << >> \/ w.frame.raised # "" THEN w
  ELSE process_points(process_point(w, gline, gline_idx, Head(pts), gc, wraps),
                      gline, gline_idx, Tail(pts), gc, wraps)

\* Line 1177: gline.gcview_end_vertex = len(count_print_indices) - 1, taken
\* after the three appends of lines 1174-1176, for the line at
\* (layer_idx, gline_idx), kept with the cursors the line was left with.
command_done(w1, gline_idx) ==
  [layer_idx |-> w1.frame.layer_idx, gline_idx |-> gline_idx,
   gcview_end_vertex |-> Len(w1.self.count_print_indices),
   vertex_k |-> w1.frame.vertex_k, index_k |-> w1.frame.index_k,
   travel_vertex_k |-> w1.frame.travel_vertex_k]

\* The bookkeeping after a line with the counts of the line itself in place
\* of the running cursors.
gline_done_per_command_counts(w1, gline, gline_idx) ==
  IF w1.frame.raised # "" THEN w1
  ELSE [self |-> [w1.self EXCEPT
          !.count_print_indices =
             Append(@, w1.frame.index_k - Last(@)),
          !.count_print_vertices =
             Append(@, w1.frame.vertex_k - Last(@)),
          !.count_travel_indices =
             Append(@, w1.frame.travel_vertex_k - Last(@))],
        frame |-> [w1.frame EXCEPT
          !.prev_gline = << gline >>,
          !.prev_extruding = gline.extruding,
          !.commands = Append(@, command_done(w1, gline_idx))]]

\* Lines 1172-1177: the bookkeeping after a line.
gline_done(w1, gline, gline_idx) ==
  IF w1.frame.raised # "" THEN w1
  ELSE [self |-> [w1.self EXCEPT
          !.count_print_indices = Append(@, w1.frame.index_k),
          !.count_print_vertices = Append(@, w1.frame.vertex_k),
          !.count_travel_indices = Append(@, w1.frame.travel_vertex_k)],
        frame |-> [w1.frame EXCEPT
          !.prev_gline = << gline >>,
          !.prev_extruding = gline.extruding,
          !.commands = Append(@, command_done(w1, gline_idx))]]

\* Lines 997-1177: one line of the layer.
process_gline(w, gline, gline_idx, gc, wraps) ==
  IF ~gline.is_move \/ (~gline.has_xyz /\ ~gline.has_ij) THEN w
  ELSE IF interpolate_arcs_raises(gline, w.frame.prev_gline)
  THEN [w EXCEPT !.frame.has_movement = TRUE,
                 !.frame.raised = "AttributeError"]
  ELSE gline_done(process_points([w EXCEPT !.frame.has_movement = TRUE],
                                 gline, gline_idx,
                                 interpolate_arcs(gline, w.frame.prev_gline),
                                 gc, wraps),
                  gline, gline_idx)

RECURSIVE process_glines(_, _, _, _, _)
process_glines(w, layer, gline_idx, gc, wraps) ==
  IF gline_idx >= Len(layer) \/ w.frame.raised # "" THEN w
  ELSE process_glines(process_gline(w, layer[gline_idx + 1], gline_idx, gc, wraps),
                      layer, gline_idx + 1, gc, wraps)

\* ------------------------------------------------------------------- state
\* Model.__init__ and GcodeModel.__init__.
\* vertices, colors and travels hold the capacity (.size) of the array.
NewModel(class) ==
  [class |-> class,
   vertices |-> 0, colors |-> 0, travels |-> 0,
   indices |-> [size |-> 0, data |-> << >>],
   layers_loaded |-> 0, initialized |-> FALSE, max_layers |-> 0,
   num_layers_to_draw |-> 0, layer_stops |-> << 0 >>, printed_until |-> -1,
   only_current |-> FALSE,
   count_travel_indices |-> << 0 >>, count_print_indices |-> << 0 >>,
   count_print_vertices |-> << 0 >>,
   loaded |-> FALSE, fully_loaded |-> FALSE, buffers_created |-> FALSE]

\* The generator object before its first next().  grown, yielded, segments
\* and commands are the history of the run: the mid-layer reallocations, the
\* values yielded, the branches each written segment was built by and the
\* gcview_end_vertex given to each line that passed the movement filter.
NewFrame ==
  [pc |-> "new", raised |-> "", layer_idx |-> 0, processed_lines |-> 0,
   vertex_k |-> 0, travel_vertex_k |-> 0, index_k |-> 0,
   prev_move_angle |-> 0, prev_pos |-> <<0, 0>>, prev_gline |-> << >>,
   prev_extruding |-> FALSE, has_movement |-> FALSE, color_k |-> 0,
   grown |-> {}, yielded |-> << >>, segments |-> << >>, commands |-> << >>]

Classes == {"GcodeModel", "GcodeModelLight"}

\* No interpolate_arcs call has been made on its own.
NoArc == [called |-> FALSE]

\* buffers_created = False: nothing has been uploaded.
NoBuffers ==
  [vertices |-> 0, travels |-> 0, indices |-> 0, travels_offset |-> 0,
   vertex_count |-> 0, index_count |-> 0, travel_count |-> 0,
   index_data |-> << >>]

\* drawn is << the pass >> between a pass of draw() and its return.
NewRender == [pc |-> "idle", drawn |-> << >>, waited |-> 0]

Init ==
  /\ gcode = << >>
  /\ \E class \in Classes : self = NewModel(class)
  /\ frame = NewFrame
  /\ lock = "free"
  /\ gpu = NoBuffers
  /\ render = NewRender
  /\ other = "idle"
  /\ copy = << >>
  /\ arc = NoArc

\* ------------------------------------------------------------------ parser
\* The parser appends a line to the last layer or opens a new layer with it.
ParserAppend(gline, new_layer) ==
  /\ GcodeLen(gcode) < MaxLines
  /\ new_layer \/ gcode # << >>
  /\ gcode' = IF new_layer THEN Append(gcode, << gline >>)
              ELSE [gcode EXCEPT ![Len(gcode)] = Append(@, gline)]
  /\ UNCHANGED <<self, frame, lock, gpu, render, other, copy, arc>>

\* --------------------------------------------------------------- load_data
\* Lines 915-980: the set-up of a load_data run, without the lock.
load_data_setup(s, nlines) ==
  [s EXCEPT
     !.count_travel_indices = << 0 >>,
     !.count_print_indices = << 0 >>,
     !.count_print_vertices = << 0 >>,
     !.vertices = coords_count(nlines),
     !.travels = travel_coords_count(nlines),
     !.indices = [size |-> indices_count(nlines), data |-> << >>],
     !.layer_stops = << 0 >>,
     !.printed_until = 0,
     !.only_current = FALSE]

\* The first next() of the first load_data generator of the instance.
LoadData ==
  /\ self.class = "GcodeModel"
  /\ frame.pc = "new"
  /\ self' = load_data_setup(self, GcodeLen(gcode))
  /\ frame' = [NewFrame EXCEPT !.pc = "while"]
  /\ UNCHANGED <<gcode, lock, gpu, render, other, copy, arc>>

\* The first next() of a further load_data generator on the same instance,
\* after the earlier one has finished, raised or been abandoned at a yield.
LoadDataAgain ==
  /\ self.class = "GcodeModel"
  /\ frame.pc \in {"yield", "done", "raised"}
  /\ self' = load_data_setup(self, GcodeLen(gcode))
  /\ frame' = [NewFrame EXCEPT !.pc = "while"]
  /\ UNCHANGED <<gcode, lock, gpu, render, other, copy, arc>>

\* Lines 982-983: the loop test and the acquisition of the lock.
AcquireLayer ==
  /\ frame.pc = "while"
  /\ frame.layer_idx < Len(gcode)
  /\ lock = "free"
  /\ lock' = "producer"
  /\ frame' = [frame EXCEPT !.pc = "layer"]
  /\ UNCHANGED <<gcode, self, gpu, render, other, copy, arc>>

\* Lines 984-994: the reallocation at the start of a layer.
layer_start_resize(s, f, nlines) ==
  LET remaining_lines == nlines - f.processed_lines
      ncoords == coords_count(remaining_lines)
                 + f.vertex_k * bufferlen_per_vertex
      ntravelcoords == travel_coords_count(remaining_lines)
                       + f.travel_vertex_k * bufferlen_per_vertex
      nindices == indices_count(remaining_lines) + f.index_k
  IN IF ncoords > s.vertices
     THEN [s EXCEPT !.vertices = ncoords, !.travels = ntravelcoords,
                    !.indices.size = nindices]
     ELSE s

\* The bookkeeping of a layer that leaves num_layers_to_draw as it is.
commit_layer_keeping_cursor(s) ==
  LET stops == Append(s.layer_stops, Len(s.count_print_indices) - 1)
  IN [s EXCEPT !.layer_stops = stops,
               !.max_layers = Len(stops) - 1,
               !.initialized = FALSE,
               !.loaded = TRUE]

\* Lines 1179-1185: the bookkeeping of a layer that contains movement.
commit_layer(s) ==
  LET stops == Append(s.layer_stops, Len(s.count_print_indices) - 1)
  IN [s EXCEPT !.layer_stops = stops,
               !.max_layers = Len(stops) - 1,
               !.num_layers_to_draw = Len(stops),
               !.initialized = FALSE,
               !.loaded = TRUE]

\* Lines 984-1185: the critical section of one layer, up to the release of
\* the lock; an exception leaves the with block and ends the generator.
section_done(w1) ==
  IF w1.frame.raised # ""
  THEN [w1 EXCEPT !.frame.pc = "raised"]
  ELSE [self |-> IF w1.frame.has_movement THEN commit_layer(w1.self)
                 ELSE w1.self,
        frame |-> [w1.frame EXCEPT !.pc = "post"]]

layer_section(s, f, gc, wraps) ==
  section_done(
    process_glines([self |-> layer_start_resize(s, f, GcodeLen(gc)),
                    frame |-> [f EXCEPT !.has_movement = FALSE, !.grown = {}]],
                   gc[f.layer_idx + 1], 0, gc, wraps))

\* A renderer blocked in draw() has seen one more critical section of the
\* producer go by.
section_seen(r) ==
  IF r.pc = "waiting" THEN [r EXCEPT !.waited = @ + 1] ELSE r

\* The per-layer section with the yield inside the with block.
LayerSection_yield_inside_with(wraps) ==
  /\ self.class = "GcodeModel"
  /\ frame.pc = "layer"
  /\ \E w \in {layer_section(self, frame, gcode, wraps)} :
       /\ self' = w.self
       /\ frame' = w.frame
  /\ render' = section_seen(render)
  /\ UNCHANGED <<gcode, lock, gpu, other, copy, arc>>

LayerSection(wraps) ==
  /\ self.class = "GcodeModel"
  /\ frame.pc = "layer"
  /\ \E w \in {layer_section(self, frame, gcode, wraps)} :
       /\ self' = w.self
       /\ frame' = w.frame
  /\ lock' = "free"
  /\ render' = section_seen(render)
  /\ UNCHANGED <<gcode, gpu, other, copy, arc>>

\* Lines 1187-1190: count the layer's lines, call the progress callback.
CountLines ==
  /\ frame.pc = "post"
  /\ frame' = [frame EXCEPT
       !.processed_lines = @ + Len(gcode[frame.layer_idx + 1]),
       !.pc = "callback"]
  /\ UNCHANGED <<gcode, self, lock, gpu, render, other, copy, arc>>

\* Line 1192: the callback has returned; yield layer_idx.  frame.yielded
\* collects the values the generator has yielded.
YieldLayer ==
  /\ frame.pc = "callback"
  /\ frame' = [frame EXCEPT !.pc = "yield",
                            !.yielded = Append(@, frame.layer_idx)]
  /\ UNCHANGED <<gcode, self, lock, gpu, render, other, copy, arc>>

\* A resumption that steps over the layer after the one just yielded.
ResumeLayer_skipping_a_layer ==
  /\ frame.pc = "yield"
  /\ frame' = [frame EXCEPT !.layer_idx = @ + 2, !.pc = "while"]
  /\ UNCHANGED <<gcode, self, lock, gpu, render, other, copy, arc>>

\* Line 1193: the driver resumes the generator.
ResumeLayer ==
  /\ frame.pc = "yield"
  /\ frame' = [frame EXCEPT !.layer_idx = @ + 1, !.pc = "while"]
  /\ UNCHANGED <<gcode, self, lock, gpu, render, other, copy, arc>>

\* The loop ends without a look at the current number of layers.
AcquireFinal_without_length_check ==
  /\ frame.pc = "while"
  /\ lock = "free"
  /\ lock' = "producer"
  /\ frame' = [frame EXCEPT !.pc = "final"]
  /\ UNCHANGED <<gcode, self, gpu, render, other, copy, arc>>

\* Lines 982 and 1195: the loop ends, the lock is taken for the trim.
AcquireFinal ==
  /\ frame.pc = "while"
  /\ frame.layer_idx >= Len(gcode)
  /\ lock = "free"
  /\ lock' = "producer"
  /\ frame' = [frame EXCEPT !.pc = "final"]
  /\ UNCHANGED <<gcode, self, gpu, render, other, copy, arc>>

\* The final section without the resize of the print-vertex array.
finalize_without_vertex_trim(s, f) ==
  [s EXCEPT !.travels = f.travel_vertex_k * bufferlen_per_vertex,
            !.indices.size = f.index_k,
            !.max_layers = Len(s.layer_stops) - 1,
            !.num_layers_to_draw = Len(s.layer_stops),
            !.initialized = FALSE,
            !.loaded = TRUE,
            !.fully_loaded = TRUE]

\* Lines 1196-1213: trim the arrays to the cursors and mark the model loaded.
finalize(s, f) ==
  [s EXCEPT !.vertices = f.vertex_k * bufferlen_per_vertex,
            !.travels = f.travel_vertex_k * bufferlen_per_vertex,
            !.indices.size = f.index_k,
            !.max_layers = Len(s.layer_stops) - 1,
            !.num_layers_to_draw = Len(s.layer_stops),
            !.initialized = FALSE,
            !.loaded = TRUE,
            !.fully_loaded = TRUE]

\* Lines 1195-1219: the final critical section and yield None.
Finalize ==
  /\ self.class = "GcodeModel"
  /\ frame.pc = "final"
  /\ self' = finalize(self, frame)
  /\ frame' = [frame EXCEPT !.pc = "done"]
  /\ lock' = "free"
  /\ UNCHANGED <<gcode, gpu, render, other, copy, arc>>

\* ------------------------------------------- GcodeModelLight.load_data
coord_per_line == 2 * 3
channels_per_line == 2 * 4

\* Lines 1419-1436: the set-up of the light model's load.
light_load_data_setup(s, nlines) ==
  [s EXCEPT
     !.layer_stops = << 0 >>,
     !.vertices = nlines * coord_per_line,
     !.colors = nlines * channels_per_line,
     !.printed_until = -1,
     !.only_current = FALSE]

LightLoadData ==
  /\ self.class = "GcodeModelLight"
  /\ frame.pc = "new"
  /\ self' = light_load_data_setup(self, GcodeLen(gcode))
  /\ frame' = [NewFrame EXCEPT !.pc = "while"]
  /\ UNCHANGED <<gcode, lock, gpu, render, other, copy, arc>>

\* A further load_data generator on the same light model.
LightLoadDataAgain ==
  /\ self.class = "GcodeModelLight"
  /\ frame.pc \in {"yield", "done", "raised"}
  /\ self' = light_load_data_setup(self, GcodeLen(gcode))
  /\ frame' = [NewFrame EXCEPT !.pc = "while"]
  /\ UNCHANGED <<gcode, lock, gpu, render, other, copy, arc>>

\* Lines 1454-1481: one (current_pos, interpolated) pair of a line.
light_point(w, pt) ==
  LET f == w.frame
      s == w.self
      needed == f.vertex_k + arc_margin_lines * coord_per_line
      grow == s.vertices < needed
      s1 == IF grow
            THEN [s EXCEPT !.vertices = (needed * 3) \div 2,
                           !.colors = (s.colors * needed * 3)
                                      \div (s.vertices * 2)]
            ELSE s
      f1 == IF grow
            THEN [f EXCEPT !.grown = @ \cup
                   {growth("vertices", s.vertices, s1.vertices,
                           f.vertex_k + coord_per_line),
                    growth("colors", s.colors, s1.colors,
                           f.color_k + channels_per_line)}]
            ELSE f
  IN IF grow /\ s.vertices = 0
     THEN [self |-> s, frame |-> [f EXCEPT !.raised = "ZeroDivisionError"]]
     ELSE IF f.vertex_k + coord_per_line > s1.vertices
             \/ f.color_k + channels_per_line > s1.colors
     THEN [self |-> s1, frame |-> [f1 EXCEPT !.raised = "IndexError"]]
     ELSE [self |-> s1,
           frame |-> [f1 EXCEPT !.vertex_k = @ + coord_per_line,
                               !.color_k = @ + channels_per_line,
                               !.prev_pos = pt.pos]]

RECURSIVE light_points(_, _)
light_points(w, pts) ==
  IF pts = << >> \/ w.frame.raised # "" THEN w
  ELSE light_points(light_point(w, Head(pts)), Tail(pts))

\* Lines 1445-1485: one line of the layer.
light_gline(w, gline) ==
  IF ~gline.is_move \/ ~gline.has_xyz THEN w
  ELSE IF interpolate_arcs_raises(gline, w.frame.prev_gline)
  THEN [w EXCEPT !.frame.has_movement = TRUE,
                 !.frame.raised = "AttributeError"]
  ELSE LET w1 == light_points([w EXCEPT !.frame.has_movement = TRUE],
                              interpolate_arcs(gline, w.frame.prev_gline))
       IN IF w1.frame.raised # "" THEN w1
          ELSE [w1 EXCEPT !.frame.prev_gline = << gline >>]

RECURSIVE light_glines(_, _, _)
light_glines(w, layer, gline_idx) ==
  IF gline_idx >= Len(layer) \/ w.frame.raised # "" THEN w
  ELSE light_glines(light_gline(w, layer[gline_idx + 1]), layer, gline_idx + 1)

\* Lines 1487-1493: the bookkeeping of a layer that contains movement.
light_commit_layer(s, f) ==
  LET stops == Append(s.layer_stops, f.vertex_k \div 3)
  IN [s EXCEPT !.layer_stops = stops,
               !.max_layers = Len(stops) - 1,
               !.num_layers_to_draw = Len(stops),
               !.initialized = FALSE,
               !.loaded = TRUE]

\* Lines 1439-1493: the critical section of one layer of the light model.
light_layer_section(s, f, gc) ==
  LET nlines == GcodeLen(gc)
      s0 == IF nlines * coord_per_line > s.vertices
            THEN [s EXCEPT !.vertices = nlines * coord_per_line,
                           !.colors = nlines * channels_per_line]
            ELSE s
      w1 == light_glines([self |-> s0,
                          frame |-> [f EXCEPT !.has_movement = FALSE, !.grown = {}]],
                         gc[f.layer_idx + 1], 0)
  IN IF w1.frame.raised # ""
     THEN [w1 EXCEPT !.frame.pc = "raised"]
     ELSE [self |-> IF w1.frame.has_movement
                    THEN light_commit_layer(w1.self, w1.frame)
                    ELSE w1.self,
           frame |-> [w1.frame EXCEPT !.pc = "callback"]]

LightLayerSection ==
  /\ self.class = "GcodeModelLight"
  /\ frame.pc = "layer"
  /\ \E w \in {light_layer_section(self, frame, gcode)} :
       /\ self' = w.self
       /\ frame' = w.frame
  /\ lock' = "free"
  /\ render' = section_seen(render)
  /\ UNCHANGED <<gcode, gpu, other, copy, arc>>

\* Lines 1502-1512: trim the arrays and mark the light model loaded.
light_finalize(s, f) ==
  [s EXCEPT !.vertices = f.vertex_k,
            !.colors = f.color_k,
            !.max_layers = Len(s.layer_stops) - 1,
            !.num_layers_to_draw = Len(s.layer_stops),
            !.initialized = FALSE,
            !.loaded = TRUE,
            !.fully_loaded = TRUE]

\* Lines 1501-1518: the final critical section and yield None.
LightFinalize ==
  /\ self.class = "GcodeModelLight"
  /\ frame.pc = "final"
  /\ self' = light_finalize(self, frame)
  /\ frame' = [frame EXCEPT !.pc = "done"]
  /\ lock' = "free"
  /\ UNCHANGED <<gcode, gpu, render, other, copy, arc>>

\* ------------------------------------------ load_data driven to exhaustion
\* Lines 982-1219 and 1437-1518: the layers from w.frame.layer_idx on and the
\* final section, run with nothing in between (list(model.load_data(gc))).
RECURSIVE load_data_layers(_, _, _)
load_data_layers(w, gc, wraps) ==
  IF w.frame.raised # "" THEN w
  ELSE IF w.frame.layer_idx >= Len(gc)
  THEN [self |-> IF w.self.class = "GcodeModel"
                 THEN finalize(w.self, w.frame)
                 ELSE light_finalize(w.self, w.frame),
        frame |-> [w.frame EXCEPT !.pc = "done"]]
  ELSE LET w1 == IF w.self.class = "GcodeModel"
                 THEN layer_section(w.self, w.frame, gc, wraps)
                 ELSE light_layer_section(w.self, w.frame, gc)
       IN IF w1.frame.raised # "" THEN w1
          ELSE load_data_layers(
                 [self |-> w1.self,
                  frame |-> [w1.frame EXCEPT
                    !.processed_lines =
                       IF w.self.class = "GcodeModel"
                       THEN @ + Len(gc[w.frame.layer_idx + 1]) ELSE @,
                    !.layer_idx = @ + 1]],
                 gc, wraps)

\* A new instance of the class on which load_data(gc) has been run to its
\* end: [self |-> the instance, frame |-> the generator's last frame].
load_data_run(class, gc, wraps) ==
  load_data_layers(
    [self |-> IF class = "GcodeModel"
              THEN load_data_setup(NewModel(class), GcodeLen(gc))
              ELSE light_load_data_setup(NewModel(class), GcodeLen(gc)),
     frame |-> [NewFrame EXCEPT !.pc = "while"]],
    gc, wraps)

\* -------------------------------------------------------- load() and draw()
\* Python list indexing: seq[k] for k in -len..len-1, else IndexError.
in_range(seq, k) == k < Len(seq) /\ k >= -Len(seq)
item(seq, k) == IF k >= 0 THEN seq[k + 1] ELSE seq[Len(seq) + k + 1]

\* ------------------------------------------------------------------ copy()
\* GcodeModel.copy (lines 1221-1234) and GcodeModelLight.copy (lines
\* 1523-1533): a new instance that takes the listed attributes of s and is
\* marked loaded and fully loaded.  Neither reads s.fully_loaded.
copy_fields(s) ==
  IF s.class = "GcodeModel"
  THEN [NewModel(s.class) EXCEPT
          !.vertices = s.vertices, !.travels = s.travels,
          !.indices = s.indices,
          !.max_layers = s.max_layers,
          !.num_layers_to_draw = s.num_layers_to_draw,
          !.printed_until = s.printed_until,
          !.layer_stops = s.layer_stops,
          !.only_current = s.only_current,
          !.count_travel_indices = s.count_travel_indices,
          !.count_print_indices = s.count_print_indices,
          !.count_print_vertices = s.count_print_vertices,
          !.loaded = TRUE, !.fully_loaded = TRUE, !.initialized = FALSE]
  ELSE [NewModel(s.class) EXCEPT
          !.vertices = s.vertices, !.colors = s.colors,
          !.max_layers = s.max_layers,
          !.num_layers_to_draw = s.num_layers_to_draw,
          !.printed_until = s.printed_until,
          !.layer_stops = s.layer_stops,
          !.only_current = s.only_current,
          !.loaded = TRUE, !.fully_loaded = TRUE, !.initialized = FALSE]

\* The instance copy() returns.  setattr binds the copy's attributes to the
\* very array objects of s: while shares_arrays holds, the copy's arrays are
\* those of the source (which load_data resizes in place), and model holds
\* their value at the time of the call.  source_fully_loaded,
\* source_uploaded and taken_at record the source's fully_loaded and
\* initialized flags and the generator's position at the call.
copied(s, pc) ==
  [model |-> copy_fields(s),
   shares_arrays |-> TRUE,
   source_fully_loaded |-> s.fully_loaded,
   source_uploaded |-> s.initialized,
   taken_at |-> pc]

\* The lists of the copy: layer_stops and the running counts are the list
\* objects of the source, which load_data appends to and only the set-up of
\* a further load_data run replaces.
copy_lists(c, s) ==
  IF s.class = "GcodeModel"
  THEN [c.model EXCEPT !.layer_stops = s.layer_stops,
                       !.count_travel_indices = s.count_travel_indices,
                       !.count_print_indices = s.count_print_indices,
                       !.count_print_vertices = s.count_print_vertices]
  ELSE [c.model EXCEPT !.layer_stops = s.layer_stops]

\* The copy as it is now: its arrays are the source's while they are shared.
copy_now(c, s) ==
  IF c.shares_arrays
  THEN IF s.class = "GcodeModel"
       THEN [copy_lists(c, s) EXCEPT !.vertices = s.vertices,
                                     !.travels = s.travels,
                                     !.indices = s.indices]
       ELSE [copy_lists(c, s) EXCEPT !.vertices = s.vertices,
                                     !.colors = s.colors]
  ELSE copy_lists(c, s)

\* Lines 1285-1289, 1559-1563: load() of a fully loaded source binds new empty
\* arrays to the source; a copy made earlier keeps the arrays it was given.
copies_after_load(copies, s) ==
  [k \in DOMAIN copies |->
     IF s.fully_loaded /\ copies[k].shares_arrays
     THEN [copies[k] EXCEPT !.model = copy_now(copies[k], s),
                            !.shares_arrays = FALSE]
     ELSE copies[k]]

\* copy() is called on the instance, by any thread and without the lock,
\* once load_data has been started on it.
Copy ==
  /\ copy = << >>
  /\ frame.pc # "new"
  /\ copy' = << copied(self, frame.pc) >>
  /\ UNCHANGED <<gcode, self, frame, lock, gpu, render, other, arc>>

\* Lines 1264-1289: GcodeModel.load, inside the lock.  The buffers take the
\* whole arrays; vertex_count, index_count and travel_count are the parts of
\* them that load_data has written.
upload(s, f) ==
  [vertices |-> s.vertices, travels |-> s.travels, indices |-> s.indices.size,
   travels_offset |-> s.vertices \div 10,
   vertex_count |-> Min(f.vertex_k, s.vertices \div bufferlen_per_vertex),
   index_count |-> Min(Len(s.indices.data), s.indices.size),
   travel_count |-> Min(f.travel_vertex_k, s.travels \div bufferlen_per_vertex),
   index_data |-> s.indices.data]

uploaded_model(s) ==
  LET s1 == [s EXCEPT !.layers_loaded = s.max_layers, !.initialized = TRUE,
                      !.buffers_created = TRUE]
  IN IF s.fully_loaded
     THEN [s1 EXCEPT !.vertices = 0, !.travels = 0,
                     !.indices = [size |-> 0, data |-> << >>]]
     ELSE s1

\* The viewport calls load() on a model that is loaded and not initialized.
Upload ==
  /\ self.class = "GcodeModel"
  /\ self.loaded /\ ~self.initialized
  /\ lock = "free"
  /\ gpu' = upload(self, frame)
  /\ self' = uploaded_model(self)
  /\ copy' = copies_after_load(copy, self)
  /\ UNCHANGED <<gcode, frame, lock, render, other, arc>>

\* Lines 1544-1563: GcodeModelLight.load, inside the lock.
light_upload(s, f) ==
  [NoBuffers EXCEPT !.vertices = s.vertices \div 3,
                    !.vertex_count = Min(f.vertex_k, s.vertices) \div 3]

light_uploaded_model(s) ==
  LET s1 == [s EXCEPT !.layers_loaded = s.max_layers, !.initialized = TRUE,
                      !.buffers_created = TRUE]
  IN IF s.fully_loaded THEN [s1 EXCEPT !.vertices = 0, !.colors = 0] ELSE s1

LightUpload ==
  /\ self.class = "GcodeModelLight"
  /\ self.loaded /\ ~self.initialized
  /\ lock = "free"
  /\ gpu' = light_upload(self, frame)
  /\ self' = light_uploaded_model(self)
  /\ copy' = copies_after_load(copy, self)
  /\ UNCHANGED <<gcode, frame, lock, render, other, arc>>

\* The externally settable cursors: plain attribute writes, made by the
\* thread that also draws, between its draw passes.
SetLayersToDraw(n) ==
  /\ render.pc = "idle"
  /\ self.num_layers_to_draw # n
  /\ self' = [self EXCEPT !.num_layers_to_draw = n]
  /\ UNCHANGED <<gcode, frame, lock, gpu, render, other, copy, arc>>

SetPrintedUntil(n) ==
  /\ render.pc = "idle"
  /\ self.printed_until # n
  /\ self' = [self EXCEPT !.printed_until = n]
  /\ UNCHANGED <<gcode, frame, lock, gpu, render, other, copy, arc>>

SetOnlyCurrent(b) ==
  /\ render.pc = "idle"
  /\ self.only_current # b
  /\ self' = [self EXCEPT !.only_current = b]
  /\ UNCHANGED <<gcode, frame, lock, gpu, render, other, copy, arc>>

\* A pass is [raised, prints, travels]: the draw calls issued until the pass
\* ended or raised.  Print calls are [start, end, color] as passed to
\* _draw_elements; travel and light calls are [first, count, color] as passed
\* to glDrawArrays.
call(a, b, color) == [a |-> a, b |-> b, color |-> color]

\* Lines 1330-1339: _draw_elements(start, end) reads the running counts.
draw_elements_empty(s, start, end) ==
  item(s.count_print_indices, end) = item(s.count_print_indices, start - 1)

draw_elements_ok(s, start, end) ==
  /\ in_range(s.count_print_indices, end)
  /\ in_range(s.count_print_indices, start - 1)
  /\ \/ draw_elements_empty(s, start, end)
     \/ /\ in_range(s.count_print_vertices, start - 1)
        /\ in_range(s.count_print_vertices, end)

\* A list of intended _draw_elements calls, executed in order.
RECURSIVE draw_elements_all(_, _, _)
draw_elements_all(s, calls, done) ==
  IF calls = << >> THEN [raised |-> "", prints |-> done]
  ELSE LET c == Head(calls)
       IN IF ~draw_elements_ok(s, c.a, c.b)
          THEN [raised |-> "IndexError", prints |-> done]
          ELSE draw_elements_all(s, Tail(calls),
                 IF draw_elements_empty(s, c.a, c.b) THEN done
                 ELSE Append(done, c))

\* Lines 1341-1392: GcodeModel._display_movements.
display_movements(s) ==
  LET max_layers == s.layers_loaded
      ntd == s.num_layers_to_draw
      layer_selected == ntd <= max_layers
      stops_ok == /\ (layer_selected => in_range(s.layer_stops, ntd - 1))
                  /\ in_range(s.layer_stops, Min(ntd, max_layers))
      end_prev_layer == IF layer_selected THEN item(s.layer_stops, ntd - 1)
                        ELSE 0
      end == item(s.layer_stops, Min(ntd, max_layers))
      cur_end0 == Min(s.printed_until, end)
      printed ==
        IF s.only_current THEN << >>
        ELSE IF 1 <= end_prev_layer /\ end_prev_layer <= cur_end0
             THEN << call(1, end_prev_layer, "printed") >>
             ELSE IF cur_end0 >= 1 THEN << call(1, cur_end0, "printed") >>
                  ELSE << >>
      start1 == Max(cur_end0, 1)
      unprinted ==
        IF end_prev_layer >= start1 /\ ~s.only_current
        THEN << call(start1, end_prev_layer, "default") >> ELSE << >>
      cur_end == IF end_prev_layer >= start1 THEN end_prev_layer ELSE cur_end0
      current ==
        IF layer_selected
        THEN (IF cur_end > end_prev_layer
              THEN << call(end_prev_layer + 1, cur_end, "current_printed") >>
              ELSE << >>)
             \o (IF end > cur_end
                 THEN << call(cur_end + 1, end, "current") >> ELSE << >>)
        ELSE << >>
      start2 == Max(s.printed_until, 1)
      rest ==
        IF ~layer_selected /\ end >= start2
        THEN << call(start2, end, "default") >> ELSE << >>
  IN IF ~stops_ok THEN [raised |-> "IndexError", prints |-> << >>]
     ELSE draw_elements_all(s, printed \o unprinted \o current \o rest, << >>)

\* Lines 1304-1328: GcodeModel._display_travels.  glDrawArrays with a
\* negative count is GL_INVALID_VALUE, which PyOpenGL raises as GLError.
display_travels(s, travels_offset) ==
  LET max_layers == s.layers_loaded
      ntd == s.num_layers_to_draw
      end_ok == in_range(s.layer_stops, Min(ntd, max_layers))
      end == item(s.layer_stops, Min(ntd, max_layers))
      end_index_ok == in_range(s.count_travel_indices, end)
      end_index == item(s.count_travel_indices, end)
      current == ntd < max_layers
      prev_ok == in_range(s.layer_stops, ntd - 1)
      end_prev_layer == item(s.layer_stops, ntd - 1)
      start_ok == in_range(s.count_travel_indices, end_prev_layer + 1)
      start_index == item(s.count_travel_indices, end_prev_layer + 1)
      first == IF current
               THEN << call(travels_offset + start_index,
                            end_index - start_index + 1, "current_travel") >>
               ELSE << >>
      end_index2 == IF current THEN start_index ELSE end_index
      second == IF s.only_current THEN << >>
                ELSE << call(travels_offset, end_index2 - 1, "travel") >>
  IN IF ~end_ok \/ ~end_index_ok
     THEN [raised |-> "IndexError", travels |-> << >>]
     ELSE IF current /\ (~prev_ok \/ ~start_ok)
     THEN [raised |-> "IndexError", travels |-> << >>]
     ELSE [raised |-> IF \E k \in 1..Len(second) : second[k].b < 0
                      THEN "GLError" ELSE "",
           travels |-> first \o second]

\* Lines 1291-1302: GcodeModel.draw inside the lock (display_travels = True).
draw(s, travels_offset) ==
  LET t == display_travels(s, travels_offset)
      m == display_movements(s)
  IN IF t.raised # ""
     THEN [raised |-> t.raised, prints |-> << >>, travels |-> t.travels]
     ELSE [raised |-> m.raised, prints |-> m.prints, travels |-> t.travels]

\* Lines 1574-1632: GcodeModelLight._display_movements; the calls are
\* glDrawArrays(GL_LINES, first, count).
light_display_movements(s) ==
  LET max_layers == s.layers_loaded
      ntd == s.num_layers_to_draw
      layer_selected == ntd <= max_layers
      stops_ok == /\ (layer_selected => in_range(s.layer_stops, ntd - 1))
                  /\ in_range(s.layer_stops, Min(ntd, max_layers))
      end_prev_layer == IF layer_selected THEN item(s.layer_stops, ntd - 1)
                        ELSE -1
      end == item(s.layer_stops, Min(ntd, max_layers))
      cur_end0 == Min(s.printed_until, end)
      printed ==
        IF s.only_current THEN << >>
        ELSE IF 0 <= end_prev_layer /\ end_prev_layer <= cur_end0
             THEN << call(0, end_prev_layer, "printed") >>
             ELSE IF cur_end0 >= 0 THEN << call(0, cur_end0, "printed") >>
                  ELSE << >>
      start1 == Max(cur_end0, 0)
      unprinted ==
        IF end_prev_layer >= start1 /\ ~s.only_current
        THEN << call(start1, end_prev_layer - start1, "default") >>
        ELSE << >>
      cur_end == IF end_prev_layer >= start1 THEN end_prev_layer ELSE cur_end0
      current ==
        IF end_prev_layer >= 0
        THEN (IF cur_end > end_prev_layer
              THEN << call(end_prev_layer, cur_end - end_prev_layer,
                           "current_printed") >>
              ELSE << >>)
             \o (IF end > cur_end
                 THEN << call(cur_end, end - cur_end, "current") >>
                 ELSE << >>)
        ELSE << >>
      start2 == Max(s.printed_until, 0)
      end2 == end - start2
      rest ==
        IF end_prev_layer < 0 /\ 0 < end2 /\ ~s.only_current
        THEN << call(start2, end2, "default") >> ELSE << >>
  IN IF ~stops_ok
     THEN [raised |-> "IndexError", prints |-> << >>, travels |-> << >>]
     ELSE [raised |-> "", prints |-> printed \o unprinted \o current \o rest,
           travels |-> << >>]

\* The pass of draw() inside the lock, kept with the cursors it ran with, the
\* position layer_stops[layers_loaded] and the buffers of the latest upload.
pass_of(s, g, result) ==
  [raised |-> result.raised, prints |-> result.prints,
   travels |-> result.travels,
   class |-> s.class,
   num_layers_to_draw |-> s.num_layers_to_draw,
   printed_until |-> s.printed_until,
   only_current |-> s.only_current,
   layers_loaded |-> s.layers_loaded,
   layer_stops |-> s.layer_stops,
   limit |-> IF in_range(s.layer_stops, s.layers_loaded)
             THEN item(s.layer_stops, s.layers_loaded) ELSE -1,
   count_print_vertices |-> s.count_print_vertices,
   count_print_indices |-> s.count_print_indices,
   count_travel_indices |-> s.count_travel_indices,
   gpu |-> g]

\* Lines 1294 and 1571: draw() reaches with self.lock while the lock is held
\* and blocks in acquire.
DrawBlocked ==
  /\ self.buffers_created
  /\ render.pc = "idle"
  /\ lock # "free"
  /\ render' = [pc |-> "waiting", drawn |-> << >>, waited |-> 0]
  /\ UNCHANGED <<gcode, self, frame, lock, gpu, other, copy, arc>>

\* Lines 1291-1302: GcodeModel.draw takes the free lock, at once or after
\* having been blocked, runs the pass and releases the lock.
DrawPass ==
  /\ self.class = "GcodeModel"
  /\ self.buffers_created
  /\ render.pc \in {"idle", "waiting"}
  /\ lock = "free"
  /\ render' = [render EXCEPT
       !.pc = "drawn",
       !.drawn = << pass_of(self, gpu, draw(self, gpu.travels_offset)) >>]
  /\ UNCHANGED <<gcode, self, frame, lock, gpu, other, copy, arc>>

\* Lines 1566-1572: GcodeModelLight.draw.
LightDrawPass ==
  /\ self.class = "GcodeModelLight"
  /\ self.buffers_created
  /\ render.pc \in {"idle", "waiting"}
  /\ lock = "free"
  /\ render' = [render EXCEPT
       !.pc = "drawn",
       !.drawn = << pass_of(self, gpu, light_display_movements(self)) >>]
  /\ UNCHANGED <<gcode, self, frame, lock, gpu, other, copy, arc>>

\* draw() returns (or its error propagates) to the caller.
DrawReturn ==
  /\ render.pc = "drawn"
  /\ render' = NewRender
  /\ UNCHANGED <<gcode, self, frame, lock, gpu, other, copy, arc>>

\* load() and draw() step by step.  The viewport thread is "at_fill_buffer"
\* while load() is at its renderer.fill_buffer calls and "at_gl_draw" while
\* draw() is at the glDrawArrays / glDrawRangeElements calls of
\* _display_travels and _display_movements.

\* Lines 1264-1270 and 1544-1550: load() enters with self.lock, sets
\* layers_loaded and initialized, creates the buffers and goes on to fill
\* them.
LoadEnter ==
  /\ self.loaded /\ ~self.initialized
  /\ render.pc = "idle"
  /\ lock = "free"
  /\ lock' = "renderer"
  /\ self' = [self EXCEPT !.layers_loaded = self.max_layers,
                          !.initialized = TRUE, !.buffers_created = TRUE]
  /\ render' = [render EXCEPT !.pc = "at_fill_buffer"]
  /\ UNCHANGED <<gcode, frame, gpu, other, copy, arc>>

\* Lines 1278-1289 and 1552-1563: the buffers are filled, the arrays of a
\* fully loaded model are dropped, and the with block ends.
LoadLeave ==
  /\ render.pc = "at_fill_buffer"
  /\ gpu' = IF self.class = "GcodeModel" THEN upload(self, frame)
            ELSE light_upload(self, frame)
  /\ self' = IF self.class = "GcodeModel" THEN uploaded_model(self)
             ELSE light_uploaded_model(self)
  /\ copy' = copies_after_load(copy, self)
  /\ lock' = "free"
  /\ render' = [render EXCEPT !.pc = "idle"]
  /\ UNCHANGED <<gcode, frame, other, arc>>

\* Lines 1294 and 1571: draw() enters with self.lock and goes on to
\* _display_travels / _display_movements.
DrawEnter ==
  /\ self.buffers_created
  /\ render.pc \in {"idle", "waiting"}
  /\ lock = "free"
  /\ lock' = "renderer"
  /\ render' = [render EXCEPT !.pc = "at_gl_draw"]
  /\ UNCHANGED <<gcode, self, frame, gpu, other, copy, arc>>

\* Lines 1296-1302 and 1571-1572: the draw calls are issued and the with
\* block ends.
DrawLeave ==
  /\ render.pc = "at_gl_draw"
  /\ render' = [render EXCEPT
       !.pc = "drawn",
       !.drawn = << pass_of(self, gpu,
                            IF self.class = "GcodeModel"
                            THEN draw(self, gpu.travels_offset)
                            ELSE light_display_movements(self)) >>]
  /\ lock' = "free"
  /\ UNCHANGED <<gcode, self, frame, gpu, other, copy, arc>>

\* A second model instance B runs a with self.lock block (set_path_size,
\* load or draw).  Line 719: lock is an attribute of the class Model, so
\* B.lock is the lock of this instance as well.
OtherEnter ==
  /\ other \in {"idle", "waiting"}
  /\ lock = "free"
  /\ lock' = "other"
  /\ other' = "inside"
  /\ UNCHANGED <<gcode, self, frame, gpu, render, copy, arc>>

OtherBlocked ==
  /\ other = "idle"
  /\ lock # "free"
  /\ other' = "waiting"
  /\ UNCHANGED <<gcode, self, frame, lock, gpu, render, copy, arc>>

OtherLeave ==
  /\ other = "inside"
  /\ lock' = "free"
  /\ other' = "idle"
  /\ UNCHANGED <<gcode, self, frame, gpu, render, copy, arc>>

\* ---------------------------------------------------------- specifications
\* The parser and one load_data run of either class.
Produce ==
  \/ LoadData
  \/ AcquireLayer
  \/ \E wraps \in BOOLEAN : LayerSection(wraps)
  \/ CountLines
  \/ YieldLayer
  \/ ResumeLayer
  \/ AcquireFinal
  \/ Finalize
  \/ LightLoadData
  \/ LightLayerSection
  \/ LightFinalize

Next ==
  \/ \E gline \in Glines, new_layer \in BOOLEAN : ParserAppend(gline, new_layer)
  \/ Produce

Spec == Init /\ [][Next]_vars

\* Several load_data runs on one instance.
NextReload ==
  \/ Next
  \/ LoadDataAgain
  \/ LightLoadDataAgain

SpecReload == Init /\ [][NextReload]_vars

\* Fully parsed programs for the specifications with a renderer.
Travel(p) == G1(p, FALSE)
Extrude(p) == G1(p, TRUE)

Programs ==
  { << << Travel(<<1, 0>>) >>, << Extrude(<<1, 1>>) >> >>,
    << << Extrude(<<1, 0>>) >>, << Extrude(<<1, 1>>) >>,
       << Travel(<<0, 0>>) >> >>,
    << << Travel(<<1, 0>>), Extrude(<<1, 1>>) >>, << NonMove >>,
       << Extrude(<<0, 0>>), Travel(<<1, 0>>) >> >>,
    << << NonMove >>, << Travel(<<1, 1>>) >>, << Travel(<<1, 0>>) >> >> }

InitParsed ==
  /\ gcode \in Programs
  /\ \E class \in Classes : self = NewModel(class)
  /\ frame = NewFrame
  /\ lock = "free"
  /\ gpu = NoBuffers
  /\ render = NewRender
  /\ other = "idle"
  /\ copy = << >>
  /\ arc = NoArc

\* Two layers of one extruding move each, the second at a right angle to
\* the first.
TwoLayerProgram ==
  << << Extrude(<<1, 0>>) >>, << Extrude(<<1, 1>>) >> >>

\* Fully parsed programs for a load that is driven to exhaustion: those of
\* the renderer specifications, two that begin with an extruding move
\* to the start position, and the two-layer program.
LoadPrograms ==
  Programs \cup
  { << << Extrude(<<0, 0>>), Extrude(<<1, 0>>) >>, << Travel(<<1, 1>>) >> >>,
    << << Extrude(<<0, 0>>) >>, << NonMove >>, << Extrude(<<1, 1>>) >> >>,
    TwoLayerProgram }

InitLoad ==
  /\ gcode \in LoadPrograms
  /\ \E class \in Classes : self = NewModel(class)
  /\ frame = NewFrame
  /\ lock = "free"
  /\ gpu = NoBuffers
  /\ render = NewRender
  /\ other = "idle"
  /\ copy = << >>
  /\ arc = NoArc

\* The generator has a next step: the enabling condition of Produce, written
\* out from the guards of the producer's actions.
producer_enabled ==
  \/ frame.pc \in {"new", "layer", "post", "callback", "yield", "final"}
  \/ frame.pc = "while" /\ lock = "free"

\* One load_data run on a program that no longer grows.
SpecLoad == InitLoad /\ [][Produce]_vars

\* A fully parsed program is loaded and uploaded while copy() is called once,
\* at any moment after the load has started.
NextCopy ==
  \/ Produce
  \/ Upload
  \/ LightUpload
  \/ Copy

SpecCopy == InitLoad /\ [][NextCopy]_vars

\* One load_data run, the uploads, the cursors and the draw passes.
NextRender ==
  \/ Produce
  \/ Upload
  \/ LightUpload
  \/ \E n \in 0..MaxCursor : SetLayersToDraw(n)
  \/ \E n \in 0..MaxCursor : SetPrintedUntil(n)
  \/ \E b \in BOOLEAN : SetOnlyCurrent(b)
  \/ DrawBlocked
  \/ DrawPass
  \/ LightDrawPass
  \/ DrawReturn

SpecRender == InitParsed /\ [][NextRender]_vars

\* One load_data run, the uploads, the draw passes and a second instance.
NextLock ==
  \/ Produce
  \/ Upload
  \/ LightUpload
  \/ DrawBlocked
  \/ DrawPass
  \/ LightDrawPass
  \/ DrawReturn
  \/ OtherEnter
  \/ OtherBlocked
  \/ OtherLeave

SpecLock == InitParsed /\ [][NextLock]_vars

\* One load_data run with load() and draw() taken step by step.
NextGpu ==
  \/ Produce
  \/ LoadEnter
  \/ LoadLeave
  \/ DrawBlocked
  \/ DrawEnter
  \/ DrawLeave
  \/ DrawReturn

SpecGpu == InitParsed /\ [][NextGpu]_vars

\* ------------------------------------------- interpolate_arcs on its own
\* The eight compass directions and no displacement.
Dirs == { <<dx, dy>> : dx \in -1..1, dy \in -1..1 }

\* Arc centre offsets (I, J) along an axis, of radius 0..MaxRadius.
ArcOffsets ==
  { <<r * d[1], r * d[2]>> :
      r \in 0..MaxRadius, d \in { <<1, 0>>, <<-1, 0>>, <<0, 1>>, <<0, -1>> } }

\* A target on the direction d from the centre start + off: at the radius,
\* or at distance 1 when the radius is 0 (d = <<0, 0>>: the centre).
ArcTarget(start, off, d) ==
  << start[1] + off[1] + Max(arc_radius(off[1], off[2]), 1) * d[1],
     start[2] + off[2] + Max(arc_radius(off[1], off[2]), 1) * d[2] >>

\* The arcs that follow a command at start; a zero-radius arc also without
\* I and J words.
ArcsFrom(start) ==
  { Arc(command, ArcTarget(start, off, d), TRUE, off[1], off[2], TRUE) :
      command \in {"G2", "G3"}, off \in ArcOffsets, d \in Dirs }
  \cup
  { Arc(command, ArcTarget(start, <<0, 0>>, d), TRUE, 0, 0, FALSE) :
      command \in {"G2", "G3"}, d \in Dirs }

\* The calls interpolate_arcs(gline, prev_gline): arcs and linear moves after
\* a command at one of Points, and as the first command (prev_gline None).
ArcCalls ==
  UNION { { [gline |-> g, prev_gline |-> << Extrude(start) >>] :
              g \in ArcsFrom(start) \cup { Extrude(p) : p \in Points } } :
          start \in Points }
  \cup { [gline |-> g, prev_gline |-> << >>] :
           g \in ArcsFrom(<<0, 0>>) \cup { Extrude(p) : p \in Points } }

\* list(interpolate_arcs(gline, prev_gline)): the points yielded, or the
\* exception; a_delta and r are the locals of an arc that was interpolated.
arc_call(gline, prev_gline) ==
  IF interpolate_arcs_raises(gline, prev_gline)
  THEN [called |-> TRUE, gline |-> gline, prev_gline |-> prev_gline,
        raised |-> "AttributeError", points |-> << >>, a_delta |-> 0, r |-> 0]
  ELSE [called |-> TRUE, gline |-> gline, prev_gline |-> prev_gline,
        raised |-> "", points |-> interpolate_arcs(gline, prev_gline),
        a_delta |-> IF gline.command \in {"G2", "G3"}
                    THEN arc_a_delta(gline, prev_gline) ELSE 0,
        r |-> IF gline.command \in {"G2", "G3"}
              THEN arc_radius(gline.i, gline.j) ELSE 0]

InterpolateArcs(args) ==
  /\ ~arc.called
  /\ arc' = arc_call(args.gline, args.prev_gline)
  /\ UNCHANGED <<gcode, self, frame, lock, gpu, render, other, copy>>

SpecArc == Init /\ [][\E args \in ArcCalls : InterpolateArcs(args)]_vars

\* ------------------------------------------------ programs with arcs
\* Arcs of radius zero (I and J absent or both 0) to the positions of Points.
ZeroArcs ==
  { Arc(command, p, e, 0, 0, has_ij) :
      command \in {"G2", "G3"}, p \in Points, e \in BOOLEAN,
      has_ij \in BOOLEAN }

\* Fully parsed programs: a zero-radius arc in a layer of its own, as the
\* first motion command or after a linear move.
ArcPrograms ==
  { << << a >> >> : a \in ZeroArcs }
  \cup { << << G1(p, e) >>, << a >> >> :
           p \in Points, e \in BOOLEAN, a \in ZeroArcs }

InitArcLoad ==
  /\ gcode \in ArcPrograms
  /\ \E class \in Classes : self = NewModel(class)
  /\ frame = NewFrame
  /\ lock = "free"
  /\ gpu = NoBuffers
  /\ render = NewRender
  /\ other = "idle"
  /\ copy = << >>
  /\ arc = NoArc

SpecArcLoad == InitArcLoad /\ [][Produce]_vars

\* seq repeated n times.
RECURSIVE Repeat(_, _)
Repeat(seq, n) == IF n <= 0 THEN << >> ELSE seq \o Repeat(seq, n - 1)

\* What the parser delivers between two layer steps of a load: one short
\* layer of travel/extrusion pairs, or several long layers of travels.
Batches ==
  { << Repeat(<< Travel(<<1, 0>>), Extrude(<<1, 1>>) >>, RunLen) >>,
    Repeat(<< Repeat(<< Travel(<<1, 0>>) >>, BatchLen) >>, BatchLayers) }

\* The parser has completed further layers.
ParserAppendLayers(layers) ==
  /\ Len(gcode) + Len(layers) <= MaxLayers
  /\ gcode' = gcode \o layers
  /\ UNCHANGED <<self, frame, lock, gpu, render, other, copy, arc>>

\* One load_data run on a program that grows by whole layers.
NextBatch ==
  \/ \E layers \in Batches : ParserAppendLayers(layers)
  \/ Produce

SpecBatch == Init /\ [][NextBatch]_vars

\* ------------------------------------------------------------------ claims
\* C1: at every yield of GcodeModel.load_data and after its completion, every
\* entry of the used part of the index array, positions 0..index_k-1, is a
\* non-negative vertex number smaller than the print-vertex count vertex_k.
C1_IndicesBelowVertexCount ==
  (self.class = "GcodeModel" /\ frame.pc \in {"yield", "done"}) =>
    \A k \in 1..Min(frame.index_k, Len(self.indices.data)) :
      GLuint_below(self.indices.data[k], frame.vertex_k)

\* C2: no write of GcodeModel.load_data goes past the end of the print-vertex,
\* index or travel array, so no buffer overrun error (numpy's ValueError for
\* a chunk that does not fit the slice) reaches the caller.
C2_NoBufferOverrun ==
  self.class = "GcodeModel" => frame.raised # "ValueError"

\* C3: whenever the lock is free, before, during and after any load_data
\* run on the instance, layer_stops[0] == 0 and
\* len(layer_stops) == max_layers + 1.
C3_LayerStopsMatchMaxLayers ==
  (self.class = "GcodeModel" /\ lock = "free") =>
    /\ self.layer_stops[1] = 0
    /\ Len(self.layer_stops) = self.max_layers + 1

\* The partially filled arrays and the draw-range sequences as a renderer
\* needs them: the running counts have one entry per counted command, every
\* layer stop is one of their positions and the counts at the last stop lie
\* within the arrays.
usable_by_renderer ==
  IF self.class = "GcodeModel"
  THEN /\ Len(self.count_print_indices) = Len(self.count_print_vertices)
       /\ Len(self.count_print_indices) = Len(self.count_travel_indices)
       /\ \A k \in 1..Len(self.layer_stops) :
            self.layer_stops[k] < Len(self.count_print_indices)
       /\ LET stop == Last(self.layer_stops)
          IN /\ self.count_print_vertices[stop + 1] * bufferlen_per_vertex
                  <= self.vertices
             /\ self.count_print_indices[stop + 1] <= self.indices.size
             /\ self.count_print_indices[stop + 1] <= Len(self.indices.data)
             /\ self.count_travel_indices[stop + 1] * bufferlen_per_vertex
                  <= self.travels
  ELSE Last(self.layer_stops) * 3 <= self.vertices

C5_NoPartialLayer ==
  (self.class = "GcodeModel" /\ lock = "free") =>
    /\ Len(self.count_print_indices) = Len(self.count_print_vertices)
    /\ Len(self.count_print_indices) = Len(self.count_travel_indices)
    /\ Last(self.layer_stops) = Len(self.count_print_indices) - 1

\* C6: while the producer of this model is inside its per-layer critical
\* section, an operation of a different model instance that takes that
\* instance's lock is not blocked.
C6_OtherInstanceNotBlocked ==
  ~(other = "waiting" /\ lock = "producer")

\* C7: a renderer blocked on the lock acquires it before the producer has
\* completed more than one further per-layer critical section.
C7_RendererWaitsOneSection ==
  (self.class = "GcodeModel" /\ render.pc = "waiting") => render.waited <= 1

\* C8: for any printed_until >= 0 and any num_layers_to_draw >= 1, one draw()
\* pass of GcodeModel or GcodeModelLight raises no error and issues no draw
\* range that ends after position layer_stops[layers_loaded]: a print range
\* ends at a command position up to it, a range of the light model at a
\* vertex up to it, a travel range at a travel vertex counted up to it.
C8_DrawClampedToLoaded ==
  \A k \in 1..Len(render.drawn) :
    LET p == render.drawn[k]
    IN (p.printed_until >= 0 /\ p.num_layers_to_draw >= 1) =>
         /\ p.raised = ""
         /\ \A j \in 1..Len(p.prints) :
              IF p.class = "GcodeModel"
              THEN p.prints[j].b <= p.limit
              ELSE p.prints[j].a + p.prints[j].b <= p.limit
         /\ \A j \in 1..Len(p.travels) :
              (p.travels[j].a - p.gpu.travels_offset) + p.travels[j].b
                <= item(p.count_travel_indices, p.limit)

\* C9: at every draw() the buffers of the most recent upload hold all the
\* geometry up to position layer_stops[layers_loaded]: every index position
\* and vertex a print range uses, every vertex its indices name and every
\* travel vertex a travel range uses was part of that upload (stated for
\* passes with num_layers_to_draw >= 1).
C9_DrawWithinUpload ==
  \A k \in 1..Len(render.drawn) :
    LET p == render.drawn[k]
        g == p.gpu
    IN p.num_layers_to_draw >= 1 =>
       /\ \A j \in 1..Len(p.prints) :
            LET c == p.prints[j]
            IN IF p.class = "GcodeModel"
               THEN /\ item(p.count_print_indices, c.b) <= g.index_count
                    /\ item(p.count_print_vertices, c.b) <= g.vertex_count
                    /\ \A n \in (item(p.count_print_indices, c.a - 1) + 1)
                                ..Min(item(p.count_print_indices, c.b),
                                      Len(g.index_data)) :
                         GLuint_below(g.index_data[n], g.vertex_count)
               ELSE c.a + c.b <= g.vertex_count
       /\ \A j \in 1..Len(p.travels) :
            LET c == p.travels[j]
            IN c.b > 0 => (c.a - g.travels_offset) + c.b <= g.travel_count

\* C10: after load_data has yielded its final None the print-vertex array
\* length is vertex_k times the stride, the travel array length is
\* travel_vertex_k times the stride and the index array length is index_k,
\* each the total of the per-command contributions; for the light model the
\* vertex and color arrays end at their cursors.
C10_ExactTrim ==
  frame.pc = "done" =>
    IF self.class = "GcodeModel"
    THEN /\ self.vertices = frame.vertex_k * bufferlen_per_vertex
         /\ self.travels = frame.travel_vertex_k * bufferlen_per_vertex
         /\ self.indices.size = frame.index_k
         /\ Len(self.indices.data) = frame.index_k
         /\ Last(self.count_print_vertices) = frame.vertex_k
         /\ Last(self.count_print_indices) = frame.index_k
         /\ Last(self.count_travel_indices) = frame.travel_vertex_k
    ELSE /\ self.vertices = frame.vertex_k
         /\ self.colors = frame.color_k
         /\ Last(self.layer_stops) * 3 = frame.vertex_k

\* A finished load with print and travel geometry.
C10_Witness ==
  /\ frame.pc = "done"
  /\ self.class = "GcodeModel"
  /\ frame.vertex_k > 0
  /\ frame.travel_vertex_k > 0
  /\ self.fully_loaded

\* C11: whenever the lock is free during and after GcodeModel.load_data, the
\* length of the print-vertex array is a multiple of the vertex stride of 10
\* values, so that the travel offset vertices.size // 10 computed at upload
\* addresses whole vertices.
C11_VertexArrayWholeVertices ==
  (self.class = "GcodeModel" /\ lock = "free" /\ frame.raised = "") =>
    self.vertices % bufferlen_per_vertex = 0

\* C12: whenever load_data enlarges an array in the middle of a layer, the
\* new capacity is at least the write cursor plus the chunk about to be
\* written and at least 1.5 times the old capacity (rounded down); this
\* holds for the print-vertex, index and travel arrays alike.
C12_GrowthCoversNeeded ==
  \A e \in frame.grown :
    /\ e.new >= e.needed
    /\ e.new >= (3 * e.old) \div 2

\* C13: during a GcodeModel.load_data run, before the final trim, the
\* capacity of each of the print-vertex, index and travel arrays never
\* decreases from one step to the next, neither at a layer-start
\* reallocation nor at a mid-layer reallocation.
C13_CapacityNeverShrinks ==
  [][(self.class = "GcodeModel" /\ frame'.pc # "done") =>
       /\ self'.vertices >= self.vertices
       /\ self'.indices.size >= self.indices.size
       /\ self'.travels >= self.travels]_vars

NonDecreasing(seq) == \A k \in 1..(Len(seq) - 1) : seq[k] <= seq[k + 1]

\* C14: after any prefix of load steps, each of layer_stops, the running
\* print-vertex counts, the running print-index counts and the running
\* travel-vertex counts is a non-decreasing sequence.
C14_RunningCountsNonDecreasing ==
  /\ NonDecreasing(self.layer_stops)
  /\ NonDecreasing(self.count_print_vertices)
  /\ NonDecreasing(self.count_print_indices)
  /\ NonDecreasing(self.count_travel_indices)

\* Three committed layers with print and travel geometry.
C14_Witness ==
  /\ self.class = "GcodeModel"
  /\ Len(self.layer_stops) >= 4
  /\ Last(self.layer_stops) > self.layer_stops[2]
  /\ Last(self.count_print_indices) > 0
  /\ Last(self.count_travel_indices) > 0
  /\ self.count_travel_indices[2] = 0

\* C15: every layer_stops entry after the first belongs to a layer for which
\* at least one print or travel vertex was appended (a layer that appends no
\* geometry gets no entry), so every layer number 1..max_layers refers to a
\* layer with visible geometry.
C15_StopsOnlyForGeometry ==
  self.class = "GcodeModel" =>
    \A k \in 2..Len(self.layer_stops) :
      \/ self.count_print_vertices[self.layer_stops[k] + 1]
           > self.count_print_vertices[self.layer_stops[k - 1] + 1]
      \/ self.count_travel_indices[self.layer_stops[k] + 1]
           > self.count_travel_indices[self.layer_stops[k - 1] + 1]

\* C16: immediately after load_data commits any layer that contains movement,
\* and again after finalization, num_layers_to_draw == max_layers + 1,
\* whatever value an external caller had set between the layer steps.
C16_CursorResetAtCommit ==
  [][(\/ /\ frame.pc = "layer"
         /\ frame'.pc \in {"post", "callback"}
         /\ frame'.has_movement
      \/ /\ frame.pc = "final"
         /\ frame'.pc = "done")
     => self'.num_layers_to_draw = self'.max_layers + 1]_vars

\* The second layer has just been committed; the last draw pass, made
\* before, ran with the cursor the caller had set to 1.
C16_Witness ==
  /\ self.class = "GcodeModel"
  /\ frame.pc = "post"
  /\ frame.has_movement
  /\ self.max_layers = 2
  /\ self.num_layers_to_draw = 3
  /\ render.pc = "drawn"
  /\ render.drawn[1].num_layers_to_draw = 1

\* The colour band of command position k in a pass p, as fixed by the two
\* cursors: a is the end of the layer before the selected one.
band(p, k) ==
  IF p.num_layers_to_draw <= p.layers_loaded
  THEN LET a == item(p.layer_stops, p.num_layers_to_draw - 1)
       IN IF k <= Min(p.printed_until, a) THEN "printed"
          ELSE IF k <= a THEN "default"
          ELSE IF k <= p.printed_until THEN "current_printed"
          ELSE "current"
  ELSE IF k <= p.printed_until THEN "printed" ELSE "default"

\* The print ranges of pass p that cover command position k.
covering(p, k) ==
  { j \in 1..Len(p.prints) : p.prints[j].a <= k /\ k <= p.prints[j].b }

\* C17: in one GcodeModel draw pass with only_current false, every command
\* position k in 1..end, end = layer_stops[min(num_layers_to_draw,
\* layers_loaded)], is covered by exactly one draw range, in the band fixed
\* by the two cursors (stated for the positions that have print geometry,
\* in passes with num_layers_to_draw >= 1 that raise no error).
C17_OneRangePerPosition ==
  \A n \in 1..Len(render.drawn) :
    LET p == render.drawn[n]
        end == item(p.layer_stops, Min(p.num_layers_to_draw, p.layers_loaded))
    IN (/\ p.class = "GcodeModel"
        /\ ~p.only_current
        /\ p.raised = ""
        /\ p.num_layers_to_draw >= 1) =>
         \A k \in 1..end :
           item(p.count_print_indices, k) > item(p.count_print_indices, k - 1)
           => /\ Cardinality(covering(p, k)) = 1
              /\ \A j \in covering(p, k) : p.prints[j].color = band(p, k)

\* C18: with only_current set, one draw pass of GcodeModel issues no draw
\* range (print or travel) that covers a position outside the selected
\* layer's band (layer_stops[num_layers_to_draw-1],
\* layer_stops[num_layers_to_draw]], whatever the cursors are; when no layer
\* is selected it issues none (stated for num_layers_to_draw >= 1).
C18_OnlyCurrentBand ==
  \A n \in 1..Len(render.drawn) :
    LET p == render.drawn[n]
        selected == p.num_layers_to_draw <= p.layers_loaded
        lo == item(p.layer_stops, p.num_layers_to_draw - 1)
        hi == item(p.layer_stops, p.num_layers_to_draw)
    IN (/\ p.class = "GcodeModel"
        /\ p.only_current
        /\ p.num_layers_to_draw >= 1) =>
         IF selected
         THEN /\ \A j \in 1..Len(p.prints) :
                   lo < p.prints[j].a /\ p.prints[j].b <= hi
              /\ \A j \in 1..Len(p.travels) :
                   LET c == p.travels[j]
                   IN /\ c.a - p.gpu.travels_offset
                           >= item(p.count_travel_indices, lo)
                      /\ (c.a - p.gpu.travels_offset) + c.b
                           <= item(p.count_travel_indices, hi)
         ELSE p.prints = << >> /\ p.travels = << >>

\* C19: for a finite program that stops growing, driving load_data to
\* exhaustion terminates: it yields each layer index 0..n-1 exactly once in
\* increasing order (also for layers without movement), then yields None,
\* and fully_loaded is true from that point on.  As a property of finite
\* runs: the yielded values are 0, 1, 2, ... up to at most the number of
\* layers, and the generator has no next step only after it has yielded
\* all of 0..n-1 and then None, with fully_loaded set.
C19_LoadTerminates ==
  /\ Len(frame.yielded) <= Len(gcode)
  /\ \A k \in 1..Len(frame.yielded) : frame.yielded[k] = k - 1
  /\ ~producer_enabled =>
       /\ frame.pc = "done"
       /\ Len(frame.yielded) = Len(gcode)
       /\ self.fully_loaded

\* C20: load_data re-reads the number of layers at every layer step: when
\* layers are appended to the program while the load is suspended at a
\* yield, every layer present at the moment of the terminating length check
\* has been processed and yielded exactly once, in increasing index order,
\* before None is yielded.
C20_AllLayersProcessed ==
  [][(frame.pc = "while" /\ frame'.pc = "final") =>
       /\ Len(frame.yielded) = Len(gcode)
       /\ \A k \in 1..Len(frame.yielded) : frame.yielded[k] = k - 1]_vars

\* The loop has ended after 1 + BatchLayers layers, all but the first of which
\* the parser appended after the first layer's section: the print-vertex
\* array has the capacity that the layer-start reallocation of the second
\* layer gave it for the new lines.
C20_Witness ==
  /\ self.class = "GcodeModel"
  /\ frame.pc = "final"
  /\ Len(gcode) = 1 + BatchLayers
  /\ Len(frame.yielded) = 1 + BatchLayers
  /\ self.vertices = coords_count(BatchLen * BatchLayers)
                       + frame.vertex_k * bufferlen_per_vertex

\* C21: copy() on a model whose load is still in progress does not return
\* an instance that is marked fully_loaded (and shares the unfinished
\* arrays): every copy marked fully loaded was taken from a source that was
\* fully loaded.
C21_CopyOnlyOfFullyLoaded ==
  \A k \in DOMAIN copy :
    copy[k].model.fully_loaded => copy[k].source_fully_loaded

\* C22: a copy taken from a fully loaded model holds the finished arrays,
\* layer_stops and running counts of the load, whether or not the source had
\* been uploaded before the call.
C22_CopyHoldsFinishedArrays ==
  \A k \in DOMAIN copy :
    copy[k].source_fully_loaded =>
      LET c == copy_now(copy[k], self)
      IN /\ c.layer_stops = self.layer_stops
         /\ c.max_layers = self.max_layers
         /\ IF self.class = "GcodeModel"
            THEN /\ c.vertices = frame.vertex_k * bufferlen_per_vertex
                 /\ c.travels = frame.travel_vertex_k * bufferlen_per_vertex
                 /\ c.indices.size = frame.index_k
                 /\ Len(c.indices.data) = frame.index_k
                 /\ c.count_print_vertices = self.count_print_vertices
                 /\ c.count_print_indices = self.count_print_indices
                 /\ c.count_travel_indices = self.count_travel_indices
            ELSE /\ c.vertices = frame.vertex_k
                 /\ c.colors = frame.color_k

\* C23: load() and draw() have released the lock before they issue a GPU
\* call: while the viewport thread is at the buffer fills of load() or at
\* the draw calls of draw(), it does not hold the lock, so the producer is
\* not kept out of its next layer for the duration of the GPU calls.
C23_LockReleasedBeforeGpuCalls ==
  render.pc \in {"at_fill_buffer", "at_gl_draw"} => lock # "renderer"

C25_TwoLayerProgramAsStated ==
  (gcode = TwoLayerProgram /\ self.class = "GcodeModel" /\ frame.pc = "done")
  => /\ self.max_layers = 2
     /\ Len(self.layer_stops) = 3
     /\ Len(self.count_print_vertices) = 3
     /\ \A k \in 1..2 : self.count_print_vertices[k + 1]
                           - self.count_print_vertices[k] >= 8
     /\ frame.travel_vertex_k = 0

\* C25: for the two-layer program the load gives max_layers = 2, two
\* layer_stops entries after the initial 0 (one per move), 4 print vertices
\* for the first move (its end cross-section is the start cross-section of
\* the second move, which joins it), 8 for the second (start and end
\* cross-section), 12 in all, and no travel vertex.
C25_TwoLayerProgram ==
  (gcode = TwoLayerProgram /\ self.class = "GcodeModel" /\ frame.pc = "done")
  => /\ self.max_layers = 2
     /\ self.layer_stops = << 0, 1, 2 >>
     /\ self.count_print_vertices = << 0, 4, 12 >>
     /\ frame.vertex_k = 12
     /\ frame.travel_vertex_k = 0
     /\ self.count_travel_indices = << 0, 0, 0 >>

C25_Witness ==
  /\ gcode = TwoLayerProgram
  /\ self.class = "GcodeModel"
  /\ frame.pc = "done"
  /\ self.fully_loaded
  /\ frame.yielded = << 0, 1 >>

\* The lines of a layer that pass the movement filter of lines 998-1003.
moves_of(layer) ==
  { k \in 1..Len(layer) :
      layer[k].is_move /\ (layer[k].has_xyz \/ layer[k].has_ij) }

\* C26: each segment of a non-extruding move processed by
\* GcodeModel.load_data appends exactly 2 vertices to the travel array and
\* leaves the print-vertex cursor, the index cursor and the print arrays as
\* they are: a layer section in which every segment is processed (all its
\* moves are travels, or no segment raised) advances the travel cursor by 2
\* for each travel line of its layer, and a section whose moves are all
\* travels changes neither vertex_k nor index_k nor the written indices.
C26_TravelSegmentAddsTwoVertices ==
  [][(self.class = "GcodeModel" /\ frame.pc = "layer" /\ frame'.pc # "layer")
     => LET layer == gcode[frame.layer_idx + 1]
            travels == { k \in moves_of(layer) : ~layer[k].extruding }
        IN (travels = moves_of(layer) \/ frame'.raised = "")
           => /\ frame'.travel_vertex_k
                   = frame.travel_vertex_k + 2 * Cardinality(travels)
              /\ travels = moves_of(layer)
                   => /\ frame'.vertex_k = frame.vertex_k
                      /\ frame'.index_k = frame.index_k
                      /\ self'.indices.data = self.indices.data]_vars

\* Every move of the layer is an extruding linear move to the position pos.
all_extrude_in_place(layer, pos) ==
  /\ moves_of(layer) # {}
  /\ \A k \in moves_of(layer) :
       /\ layer[k].extruding
       /\ layer[k].command = "G1"
       /\ layer[k].pos = pos

\* C27: an extruding segment with zero XY displacement from the previous
\* position leaves vertex_k, index_k, travel_vertex_k and the contents and
\* capacities of the three arrays unchanged: a layer section whose moves are
\* all such segments keeps the cursors and the written indices, and the
\* capacities are those the reallocation at the start of the layer gave.
C27_ZeroLengthExtrusionAddsNothing ==
  [][(self.class = "GcodeModel" /\ frame.pc = "layer" /\ frame'.pc # "layer"
      /\ all_extrude_in_place(gcode[frame.layer_idx + 1], frame.prev_pos))
     => /\ frame'.raised = ""
        /\ frame'.vertex_k = frame.vertex_k
        /\ frame'.index_k = frame.index_k
        /\ frame'.travel_vertex_k = frame.travel_vertex_k
        /\ self'.indices.data = self.indices.data
        /\ self'.vertices
             = layer_start_resize(self, frame, GcodeLen(gcode)).vertices
        /\ self'.travels
             = layer_start_resize(self, frame, GcodeLen(gcode)).travels
        /\ self'.indices.size
             = layer_start_resize(self, frame, GcodeLen(gcode)).indices.size]_vars

\* A section of extruding moves in place has run after print geometry was
\* written.
C27_Witness ==
  /\ self.class = "GcodeModel"
  /\ frame.pc = "post"
  /\ frame.vertex_k > 0
  /\ frame.layer_idx > 0
  /\ all_extrude_in_place(gcode[frame.layer_idx + 1], frame.prev_pos)
  /\ Last(self.count_print_vertices) = frame.vertex_k
  /\ self.count_print_vertices[Len(self.count_print_vertices) - 1]
       = frame.vertex_k

\* C28: for any motion command (linear, G2 or G3) interpolate_arcs yields
\* exactly one point flagged final; it is the last point and equals the
\* command's resolved position; a linear command yields only that point.
C28_OneFinalPointLast ==
  arc.called =>
    /\ arc.raised = ""
    /\ Len(arc.points) >= 1
    /\ ~Last(arc.points).interpolated
    /\ Last(arc.points).pos = arc.gline.pos
    /\ \A k \in 1..(Len(arc.points) - 1) : arc.points[k].interpolated
    /\ arc.gline.command = "G1" => Len(arc.points) = 1

\* The interpolated (flag True) points of a call.
interpolated_count(points) ==
  Cardinality({ k \in 1..Len(points) : points[k].interpolated })

\* C29: for an arc the number of interpolated points is
\* min(100, ceil(|sweep| * radius * 2 / 0.5)), that is min(100, ceil(s * r *
\* pi)) for a sweep of s times 45 degrees: never more than 100, not smaller
\* than that of any arc with a smaller or equal radius * |sweep|, and 63 for
\* a half circle of radius 5.
C29_SegmentCount ==
  (arc.called /\ arc.raised = "" /\ arc.gline.command \in {"G2", "G3"}) =>
    LET n == interpolated_count(arc.points)
    IN /\ n = Min(100, ceil_pi(Abs(arc.a_delta) * arc.r))
       /\ n <= 100
       /\ n = Len(arc.points) - 1
       /\ (Abs(arc.a_delta) = 4 /\ arc.r = 5) => n = 63
       /\ \A c \in ArcCalls :
            (/\ c.prev_gline # << >>
             /\ c.gline.command \in {"G2", "G3"}
             /\ Abs(arc_a_delta(c.gline, c.prev_gline))
                  * arc_radius(c.gline.i, c.gline.j)
                  <= Abs(arc.a_delta) * arc.r)
            => arc_segments(c.gline, c.prev_gline) <= n

\* A half circle of radius 5 has been interpolated, and so has an arc at
\* the cap.
C29_Witness ==
  /\ arc.called /\ arc.raised = ""
  /\ arc.gline.command = "G2"
  /\ arc.r = 5 /\ Abs(arc.a_delta) = 4
  /\ Len(arc.points) = 64

\* Every move of the layer is an arc of radius zero.
all_zero_radius_arcs(layer) ==
  /\ moves_of(layer) # {}
  /\ \A k \in moves_of(layer) :
       /\ layer[k].command \in {"G2", "G3"}
       /\ layer[k].i = 0 /\ layer[k].j = 0

\* C30: an arc with zero radius (I and J absent or both 0) never raises and
\* causes no print or travel vertices to be appended by load_data, whatever
\* its target: a layer section of GcodeModel.load_data whose moves are all
\* such arcs raises nothing and leaves the cursors where they were.
C30_ZeroRadiusArcAddsNothing ==
  [][(self.class = "GcodeModel" /\ frame.pc = "layer" /\ frame'.pc # "layer"
      /\ all_zero_radius_arcs(gcode[frame.layer_idx + 1]))
     => /\ frame'.raised = ""
        /\ frame'.vertex_k = frame.vertex_k
        /\ frame'.index_k = frame.index_k
        /\ frame'.travel_vertex_k = frame.travel_vertex_k]_vars

\* A load_data run has started on the instance and has not ended.
load_in_progress ==
  frame.pc \in {"while", "layer", "post", "callback", "yield", "final"}

\* The instance after load() (lines 1264-1289, 1544-1563).
after_load(s) ==
  IF s.class = "GcodeModel" THEN uploaded_model(s) ELSE light_uploaded_model(s)

\* C31: in every load_data run on an instance, also one started after an
\* earlier load has completed, fully_loaded is false while the run is in
\* progress, so that load() called during the run leaves the arrays the
\* producer writes in place.
C31_NotFullyLoadedDuringLoad ==
  load_in_progress =>
    /\ ~self.fully_loaded
    /\ after_load(self).vertices = self.vertices
    /\ after_load(self).travels = self.travels
    /\ after_load(self).colors = self.colors
    /\ after_load(self).indices = self.indices

\* load() between the runs of load_data and during a run whose arrays the
\* instance still holds.  (After load() has replaced self.vertices during a
\* run, the producer goes on writing through its local names to arrays the
\* instance no longer holds; those continuations are left out here.)
UploadHeldArrays ==
  /\ ~(self.fully_loaded /\ load_in_progress)
  /\ (Upload \/ LightUpload)

\* Repeated load_data runs on one instance over a fully parsed program, the
\* uploads and the draw passes that find the lock free.
NextReloadRender ==
  \/ Produce
  \/ LoadDataAgain
  \/ LightLoadDataAgain
  \/ UploadHeldArrays
  \/ DrawPass
  \/ LightDrawPass
  \/ DrawReturn

SpecReloadRender == InitParsed /\ [][NextReloadRender]_vars

\* C32: across load_data runs, uploads and draws on one instance, whenever
\* the lock is free layers_loaded <= len(layer_stops) - 1 and every
\* layer_stops entry is a position of the running counts, so that the reads
\* of layer_stops and of the running counts made by draw() are in range.
C32_DrawReadsInRange ==
  lock = "free" =>
    /\ self.layers_loaded <= Len(self.layer_stops) - 1
    /\ self.class = "GcodeModel" =>
         \A k \in 1..Len(self.layer_stops) :
           self.layer_stops[k] < Len(self.count_print_indices)

\* G0 / G1 without X, Y or Z word (`G1 F3000`, `G1 E5`): is_move is set, the
\* position stays where it was; load_data skips the line.
MoveWithoutAxes(e) == [G1(<<0, 0>>, e) EXCEPT !.has_xyz = FALSE]

\* Every fully parsed program without arcs of at most MaxLines lines in one
\* or two layers.
LayersOf(n) ==
  UNION { [1..k -> Glines \cup { MoveWithoutAxes(e) : e \in BOOLEAN }] :
          k \in 1..n }

AnyPrograms ==
  { << l >> : l \in LayersOf(MaxLines) }
  \cup { p \in { << l1, l2 >> : l1, l2 \in LayersOf(MaxLines - 1) } :
           GcodeLen(p) <= MaxLines }

InitAnyParsed ==
  /\ gcode \in AnyPrograms
  /\ \E class \in Classes : self = NewModel(class)
  /\ frame = NewFrame
  /\ lock = "free"
  /\ gpu = NoBuffers
  /\ render = NewRender
  /\ other = "idle"
  /\ copy = << >>
  /\ arc = NoArc

\* One load_data run on any fully parsed program.
SpecAnyLoad == InitAnyParsed /\ [][Produce]_vars

\* The segments k1..k2 of the finished mesh are a maximal run of extruding
\* segments.
extruding_run(segments, k1, k2) ==
  /\ k1 <= k2
  /\ \A k \in k1..k2 : segments[k].extruding
  /\ k1 = 1 \/ ~segments[k1 - 1].extruding
  /\ k2 = Len(segments) \/ ~segments[k2 + 1].extruding

\* C33: in the finished mesh every maximal run of extruding segments is
\* closed at both ends: its first segment starts with a cap rectangle (it is
\* not joined to an earlier cross-section) and its last segment has the end
\* cross-section, box and end cap; also for programs with extruding moves
\* of zero XY displacement.
C33_RunsClosedAtBothEnds ==
  (self.class = "GcodeModel" /\ frame.pc = "done") =>
    \A k1, k2 \in 1..Len(frame.segments) :
      extruding_run(frame.segments, k1, k2) =>
        /\ ~frame.segments[k1].joined
        /\ frame.segments[k2].capped

\* C34: the finished buffers depend only on the final program: when a load
\* that ran while the parser was appending finishes, its vertex, index and
\* travel arrays are those of a load of the program as parsed by then.
C34_FinishedBuffersOfFinalProgram ==
  [][(self.class = "GcodeModel" /\ frame.pc = "final" /\ frame'.pc = "done") =>
       \A wraps \in BOOLEAN :
         LET b == load_data_run("GcodeModel", gcode, wraps)
         IN b.frame.raised = "" =>
              /\ b.self.vertices = self'.vertices
              /\ b.self.indices = self'.indices
              /\ b.self.travels = self'.travels]_vars

\* Lines 1291-1302: the pass draw() makes on the instance as it is, with
\* num_layers_to_draw set to n.
draw_with(n) ==
  draw([self EXCEPT !.num_layers_to_draw = n], gpu.travels_offset)

\* The command positions covered by the print ranges of a pass.
covered(prints) ==
  { k \in 0..Len(self.count_print_indices) :
      \E j \in 1..Len(prints) : prints[j].a <= k /\ k <= prints[j].b }

\* C35: for every num_layers_to_draw n from 0 to max_layers + 1 a draw pass
\* of GcodeModel covers no command position after
\* layer_stops[min(n, layers_loaded)] (print ranges end at a position up to
\* it, travel ranges at a travel vertex counted up to it), the covered set
\* does not shrink when n grows, and with n = 0 no print geometry is drawn.
C35_DrawnSetGrowsWithLayers ==
  (self.class = "GcodeModel" /\ self.buffers_created /\ lock = "free") =>
    /\ \A n \in 0..(self.max_layers + 1) :
         LET p == draw_with(n)
             end == item(self.layer_stops, Min(n, self.layers_loaded))
         IN /\ \A j \in 1..Len(p.prints) : p.prints[j].b <= end
            /\ \A j \in 1..Len(p.travels) :
                 p.travels[j].b > 0 =>
                   (p.travels[j].a - gpu.travels_offset) + p.travels[j].b
                     <= item(self.count_travel_indices, end)
    /\ \A n \in 0..self.max_layers :
         covered(draw_with(n).prints) \subseteq covered(draw_with(n + 1).prints)
    /\ draw_with(0).prints = << >>

\* G2 / G3 with I/J words and no X, Y or Z word: the parser leaves x, y and
\* z at None and the current position p where it was.
ArcIJ(command, p, e, i, j) ==
  [Arc(command, p, e, i, j, TRUE) EXCEPT !.has_xyz = FALSE]

\* Arcs without X/Y/Z words at position p that interpolate_arcs gives no
\* intermediate point: of radius zero, or clockwise around a centre on the
\* +X side.
ArcsInPlace(p) ==
  { ArcIJ(command, p, e, 0, 0) : command \in {"G2", "G3"}, e \in BOOLEAN }
  \cup { ArcIJ("G2", p, e, 1, 0) : e \in BOOLEAN }

\* Fully parsed programs: a linear move, then such an arc in the same layer
\* or in a layer of its own, then possibly one more linear move.
ArcInPlacePrograms ==
  UNION { UNION { { << << G1(p, e), a >> >>,
                    << << G1(p, e) >>, << a >> >>,
                    << << G1(p, e) >>, << a >>, << G1(q, e) >> >> } :
                  q \in Points, e \in BOOLEAN, a \in ArcsInPlace(p) } :
          p \in Points }

InitArcInPlace ==
  /\ gcode \in ArcInPlacePrograms
  /\ \E class \in Classes : self = NewModel(class)
  /\ frame = NewFrame
  /\ lock = "free"
  /\ gpu = NoBuffers
  /\ render = NewRender
  /\ other = "idle"
  /\ copy = << >>
  /\ arc = NoArc

SpecArcInPlace == InitArcInPlace /\ [][Produce]_vars

\* The other of the two model classes.
other_class(class) ==
  IF class = "GcodeModel" THEN "GcodeModelLight" ELSE "GcodeModel"

\* C36: GcodeModel and GcodeModelLight decide identically which commands
\* count as movement: the finished load of a program by one class has the
\* max_layers and the number of layer_stops entries of a load of the same
\* program by the other class.
C36_SameMovementInBothModels ==
  frame.pc = "done" =>
    \A wraps \in BOOLEAN :
      LET b == load_data_run(other_class(self.class), gcode, wraps)
      IN b.frame.raised = "" =>
           /\ b.self.max_layers = self.max_layers
           /\ Len(b.self.layer_stops) = Len(self.layer_stops)

\* The first motion command of the program is an arc.
first_motion_is_arc(gc) ==
  \E l \in 1..Len(gc) : \E k \in 1..Len(gc[l]) :
    /\ gc[l][k].is_move /\ gc[l][k].command \in {"G2", "G3"}
    /\ \A l0 \in 1..l : \A k0 \in 1..Len(gc[l0]) :
         (l0 < l \/ k0 < k) => ~gc[l0][k0].is_move

\* C37: load_data (of either class) does not raise when the first motion
\* command of the program is an arc.
C37_FirstArcDoesNotRaise ==
  first_motion_is_arc(gcode) => frame.raised = ""

\* The number of lines of the program up to and including the line at
\* (layer_idx, gline_idx), both 0-based.
lines_upto(gc, layer_idx, gline_idx) ==
  SumLen(SubSeq(gc, 1, layer_idx)) + gline_idx + 1

\* C38: for a fully parsed program without arcs, after GcodeModel.load_data
\* has processed a prefix of k lines it has emitted at most 8*k print
\* vertices, at most 48*k indices and at most 2*k travel vertices (stated at
\* each line that passed the movement filter; the lines between two of them
\* emit nothing).
C38_PerLineMaximaHold ==
  self.class = "GcodeModel" =>
    \A n \in 1..Len(frame.commands) :
      LET c == frame.commands[n]
          k == lines_upto(gcode, c.layer_idx, c.gline_idx)
      IN /\ c.vertex_k <= verticesperline * k
         /\ c.index_k <= indicesperline * k
         /\ c.travel_vertex_k <= travelverticesperline * k

\* Three extruding lines back and forth: the last segment is joined at a
\* sharp turn and capped (12 vertices, 78 indices) and the vertex bound is
\* met with equality.
C38_Witness ==
  /\ self.class = "GcodeModel"
  /\ frame.pc = "done"
  /\ Len(frame.commands) = 3
  /\ frame.commands[3].vertex_k - frame.commands[2].vertex_k = 12
  /\ frame.commands[3].index_k - frame.commands[2].index_k = 78
  /\ frame.commands[3].vertex_k = verticesperline * 3

\* C40: after GcodeModel.load_data every command that passed the movement
\* filter has a gcview_end_vertex e such that count_print_vertices[e],
\* count_print_indices[e] and count_travel_indices[e] are the cursors right
\* after the command was tessellated, and e goes up by exactly 1 from one
\* such command to the next in program order, starting at 1.
C40_EndVertexIndexesCounts ==
  (self.class = "GcodeModel" /\ frame.pc = "done") =>
    \A n \in 1..Len(frame.commands) :
      LET c == frame.commands[n]
          e == c.gcview_end_vertex
      IN /\ e = n
         /\ e + 1 <= Len(self.count_print_indices)
         /\ self.count_print_vertices[e + 1] = c.vertex_k
         /\ self.count_print_indices[e + 1] = c.index_k
         /\ self.count_travel_indices[e + 1] = c.travel_vertex_k
         /\ n > 1 =>
              lines_upto(gcode, frame.commands[n - 1].layer_idx,
                         frame.commands[n - 1].gline_idx)
                < lines_upto(gcode, c.layer_idx, c.gline_idx)

\* A finished load of three commands in two layers, print and travel, whose
\* cursors all differ.
C40_Witness ==
  /\ self.class = "GcodeModel"
  /\ frame.pc = "done"
  /\ Len(frame.commands) = 3
  /\ Len(gcode) = 2
  /\ frame.commands[1].vertex_k > 0
  /\ frame.commands[2].travel_vertex_k > 0
  /\ frame.commands[3].vertex_k > frame.commands[2].vertex_k

\* C39: the sweep of an arc (in units of 45 degrees, 8 = a full turn) has
\* the sign of its direction: in 1..8 for G3, in -8..-1 for G2; an arc whose
\* start and target coincide sweeps exactly one full turn.
C39_SweepHasSignOfDirection ==
  (arc.called /\ arc.raised = "" /\ arc.gline.command \in {"G2", "G3"}) =>
    /\ arc.gline.command = "G3" => (0 < arc.a_delta /\ arc.a_delta <= 8)
    /\ arc.gline.command = "G2" => (-8 <= arc.a_delta /\ arc.a_delta < 0)
    /\ arc.gline.pos = arc.prev_gline[1].pos => Abs(arc.a_delta) = 8

====
